---- MODULE Spec2Model ----
(***************************************************************************)
(* State-machine model of the HRUAccessory register client                 *)
(* (src/unnamed/part_003): the static instance registry, the connection    *)
(* life cycle (connectModbusClient / doConnect / forceCloseConnection),    *)
(* cleanup, the operation queue, the read cache and the characteristic     *)
(* handlers.                                                               *)
(*                                                                         *)
(* Every asynchronous function is cut at its await points: one action runs *)
(* the synchronous code from one await to the next, together with the      *)
(* continuations that run before the next timer or I/O event.  Each        *)
(* instance is one record inst[i].  A method that calls other methods      *)
(* leaves the calls in inst[i].todo; Run executes them, in order, before   *)
(* the action ends, so todo is empty in every state.                       *)
(*                                                                         *)
(* Time is kept by clocks ("milliseconds since ..."), advanced together by *)
(* Tick and saturating at the largest value they are compared with.        *)
(***************************************************************************)
EXTENDS Integers, Sequences, FiniteSets, TLC

\* ------------------------------------------------------------------ bounds
MaxInst    == 3   \* instances ever constructed
MaxHandles == 2   \* ModbusRTU objects alive per instance
MaxOps     == 2   \* operations (handler calls, register reads) alive per instance
MaxFaults  == 1   \* failures of the device or the network per instance
RandomUnit == 8   \* Math.random() is a multiple of 1 / RandomUnit
MaxCalls   == 2   \* calls of disconnect() per instance
MaxJoinFaults == 2  \* failures per instance where connects overlap
MaxHealthOps == 3   \* outcomes followed in connectionHealth per instance
MaxShutdowns == 3   \* shutdown triggers per platform
MaxTimerAge == 8000 \* ms for which the age of a heartbeat timer is followed

\* ------------------------------------------------------ program constants
RegimeRegister == 1000
SpeedRegister  == 1001
CacheTimeout   == 3000
QuiesceMs      == 1000
MinAttemptGap  == 2000
AutoOnWaitMs   == 800
OperationThrottle == 1000
HeartbeatInterval == 30000
HeartbeatTimeoutMs == 5000
OnSentinel     == 2
MaxConcurrentOperations == 3
MaxRetries     == 3
ConnectionRetryBaseDelay == 5000
MaxReconnectDelay == 60000
JitterMs       == 1000
OctetMax       == 255
PortMax        == 65535
RegisterMax    == 65535
MaxDevicesPerPlatform == 1
HealthAlarm    == 3

TheEndpoint == "10.0.0.5:502"
Endpoints == {TheEndpoint}
Registers == {RegimeRegister, SpeedRegister}
TickSteps == {CacheTimeout}
Inst      == 1..MaxInst
Handles   == 1..MaxHandles
OpIds     == 1..(IF MaxOps > MaxConcurrentOperations THEN MaxOps
                 ELSE MaxConcurrentOperations + 1)

VARIABLES inst,               \* inst[i]: the fields of HRUAccessory instance i
          activeConnections,  \* static Map connectionKey -> instance (0: no entry)
          instanceCount,      \* static counter
          device,             \* device[k][r]: register r of the device at endpoint k
          platform            \* the fields of the HRUPlatform

vars == <<inst, activeConnections, instanceCount, device, platform>>

Min(a, b) == IF a < b THEN a ELSE b
Max(a, b) == IF a > b THEN a ELSE b

\* ------------------------------------------------------------ the instance
NoEntry == [present |-> FALSE, value |-> 0, age |-> 0, ttl |-> 0]

NoStored == [valid |-> FALSE, value |-> 0, age |-> 0, lost |-> FALSE]

\* An operation o is the closure handed to addToQueue by executeWithRetry:
\*   kind "getOn" | "setOn" | "getSpeed" | "setSpeed": a characteristic handler
\*        call (executeCharacteristicOperation), with its timeout timer and
\*        its callback;
\*   kind "read": the register read created by batchReadRegister.
\* pc: queued -> throttle -> preconnect | poll | io | awaitRead | sleep |
\*     retryconnect -> done; refused (addToQueue threw);
\*     dropped (removed from operationQueue by doCleanup).
NoOp == [kind |-> "none", arg |-> 0, pc |-> "none", attempt |-> 0,
         result |-> "none", value |-> 0, await |-> 0, stage |-> "none",
         state |-> 0, writes |-> <<>>, slept |-> 0, joined |-> FALSE,
         timer |-> FALSE, cb |-> "none", cbValue |-> 0, cbCount |-> 0,
         \* addToQueue's priority argument; history: the operations admitted
         \* before this one that still wait in operationQueue
         priority |-> FALSE, earlier |-> {},
         \* processQueue's throttle sleep: the time it still lasts
         wait |-> 0,
         \* history: the device requests of the operation that failed, and
         \* the error of the last one ("busy": Modbus exception 6)
         fails |-> 0, err |-> "none"]

NewOp(kind, arg) ==
  [NoOp EXCEPT !.kind = kind, !.arg = arg, !.pc = "queued",
               !.timer = (kind # "read")]

\* the value a call leaves for the call that follows it
NoRet == [out |-> "none", v |-> 0, new |-> FALSE]

Fresh(k, built) ==
  [constructed |-> built, connectionKey |-> k,
   \* transport: this.client (0: null) and the state of every handle alive
   client |-> 0, handle |-> [h \in Handles |-> "unused"],
   \* connectionState
   isConnected |-> FALSE, isConnecting |-> FALSE, isDisconnecting |-> FALSE,
   connectionId |-> 0, sinceAttempt |-> MinAttemptGap,
   connectionRetryCount |-> 0,
   \* connectionMutex and the attempt in flight
   mutexLocked |-> FALSE, mutexWait |-> <<>>, mutexWoken |-> {},
   \* operations passed to connectionMutex.execute that are running
   mutexHolders |-> 0,
   connPc |-> "idle", connCaller |-> <<"none", 0>>, connHandle |-> 0,
   \* timers
   reconnectTimeout |-> FALSE, heartbeatTimeout |-> FALSE,
   timerCallback |-> FALSE,
   \* the heartbeat timers pending (this.heartbeatTimeout refers to the one
   \* created last) and the time since the last one was created (at most
   \* HeartbeatDue)
   heartbeatTimers |-> 0, heartbeatAge |-> 0,
   \* heartbeat probes in flight: the read each one awaits, and the time
   \* since each one started (at most HeartbeatTimeoutMs)
   probes |-> <<>>, probeAge |-> <<>>,
   \* operation queue
   operationQueue |-> <<>>, isProcessingQueue |-> FALSE,
   \* Date.now() - lastOperation (at most OperationThrottle; lastOperation
   \* is 0 at construction); history: the time since a queued operation last
   \* completed
   sinceOperation |-> OperationThrottle,
   sinceCompletion |-> OperationThrottle,
   activeOperations |-> {}, ops |-> [o \in OpIds |-> NoOp],
   requests |-> {},
   \* cache
   cache |-> [r \in Registers |-> NoEntry],
   pendingReads |-> [r \in Registers |-> 0],
   \* history: the value last stored in the cache by a device read of the
   \* register, kept until a write to the register is issued, a connection
   \* is established or fails, or the ttl has passed; "lost" once the entry
   \* was removed for another reason
   stored |-> [r \in Registers |-> NoStored],
   \* connectionHealth (successRate = rate[1] / rate[2] * 100), followed
   \* for the first healthBound outcomes
   totalOperations |-> 0, consecutiveFailures |-> 0, successRate |-> <<1, 1>>,
   healthBound |-> 0,
   \* cleanup
   isCleaningUp |-> FALSE, cleanPc |-> "idle",
   \* history: the instance whose constructor tore this one down, the runs
   \* of doCleanup and of its "Unregister instance"
   replacedBy |-> 0, calls |-> 0, cleanups |-> 0, unregisters |-> 0,
   \* history: exponentialDelay of the last scheduleReconnect and the retry
   \* count it was computed from
   delay |-> 0, delayCount |-> 0,
   \* history: the time since the attempt before when the last attempt
   \* started (at most MinAttemptGap)
   lastGap |-> MinAttemptGap,
   \* the calls still to run in this step, and the value of the last one
   todo |-> <<>>, ret |-> NoRet,
   \* the failures of the device and the network so far
   faults |-> 0, budget |-> MaxFaults,
   \* set when a step would need more than MaxOps operations or budget
   \* failures: such a step is not taken (see Step)
   overflow |-> FALSE]

\* a call of method f: by whom ("init", "timer", "op"), for which operation
\* o, with which arguments
It(f, who, o, ok, v) == [f |-> f, who |-> who, o |-> o, ok |-> ok, v |-> v]

Call(s, it) == [s EXCEPT !.todo = <<it>> \o @]

Call2(s, it1, it2) == [s EXCEPT !.todo = <<it1, it2>> \o @]

\* ------------------------------------------------------------------ timers
\* the age from which a heartbeat timer may fire: heartbeatInterval, or the
\* age up to which the model follows the timer when that is less
HeartbeatDue == Min(HeartbeatInterval, MaxTimerAge)

stopHeartbeat(s) ==
  [s EXCEPT !.heartbeatTimeout = FALSE, !.heartbeatAge = 0,
            !.heartbeatTimers = IF s.heartbeatTimeout THEN @ - 1 ELSE @]

\* a timer is created whether or not one is pending
startHeartbeat_keep(s) ==
  IF s.isCleaningUp THEN s
  ELSE [s EXCEPT !.heartbeatTimeout = TRUE, !.heartbeatAge = 0,
                 !.heartbeatTimers = @ + 1]

\* startHeartbeat: stopHeartbeat(); if (isCleaningUp) return; setTimeout
startHeartbeat(s) ==
  IF s.isCleaningUp THEN stopHeartbeat(s)
  ELSE [stopHeartbeat(s) EXCEPT !.heartbeatTimeout = TRUE,
                                !.heartbeatTimers = @ + 1]

clearReconnectTimeout(s) == [s EXCEPT !.reconnectTimeout = FALSE]

\* the delay does not grow with the retry count
ReconnectDelay_flat(n) == ConnectionRetryBaseDelay

\* scheduleReconnect: exponentialDelay = min(baseDelay * 2^retryCount, 60000)
ReconnectDelay(n) == Min(ConnectionRetryBaseDelay * 2^n, MaxReconnectDelay)

\* scheduleReconnect: jitter = Math.random() * 1000, for Math.random() =
\* p / RandomUnit in [0, 1)
Jitter(p) == (p * JitterMs) \div RandomUnit

\* after maxRetries failures no further attempt is scheduled
scheduleReconnect_giveUp(s) ==
  IF s.isCleaningUp \/ s.connectionRetryCount >= MaxRetries
  THEN [s EXCEPT !.reconnectTimeout = FALSE]
  ELSE [s EXCEPT !.reconnectTimeout = TRUE,
                 !.delay = ReconnectDelay(s.connectionRetryCount),
                 !.delayCount = s.connectionRetryCount]

\* scheduleReconnect: clearReconnectTimeout; nothing more during cleanup;
\* the retry count is reset once it has reached maxRetries; setTimeout
scheduleReconnect(s) ==
  IF s.isCleaningUp THEN [s EXCEPT !.reconnectTimeout = FALSE]
  ELSE [s EXCEPT !.reconnectTimeout = TRUE,
                 !.delay = ReconnectDelay(s.connectionRetryCount),
                 !.delayCount = s.connectionRetryCount,
                 !.connectionRetryCount = IF @ >= MaxRetries THEN 0 ELSE @]

\* ------------------------------------------------------------------- health
updateConnectionHealth(s, success) ==
  IF s.totalOperations >= s.healthBound THEN s
  ELSE [s EXCEPT
          !.totalOperations = @ + 1,
          !.consecutiveFailures = IF success THEN 0 ELSE @ + 1,
          !.successRate =
            <<s.totalOperations + 1
                - (IF success THEN 0 ELSE s.consecutiveFailures + 1),
              s.totalOperations + 1>>]

\* -------------------------------------------------------------------- cache
clearCache(s) ==
  [s EXCEPT !.cache = [r \in Registers |-> NoEntry],
            !.pendingReads = [r \in Registers |-> 0]]

\* history: the connection was established or failed
Forget(s) == [s EXCEPT !.stored = [r \in Registers |-> NoStored]]

\* history: the entry of r was removed although r was not written
Lose(s, r) == [s EXCEPT !.stored[r].lost = s.stored[r].valid]

handleConnectionFailure(s) ==
  scheduleReconnect(clearCache(Forget([s EXCEPT !.isConnected = FALSE])))

\* an entry is dropped as soon as its age reaches its ttl
Expired_early(e) == e.age >= e.ttl

\* getCachedValue: an entry older than its ttl is deleted by the lookup
Expired(e) == e.age > e.ttl

getCachedValue(s, r) ==
  [s EXCEPT !.cache[r] = IF @.present /\ Expired(@) THEN NoEntry ELSE @]

setCachedValue(s, r, v) ==
  [s EXCEPT !.cache[r] = [present |-> TRUE, value |-> v, age |-> 0,
                          ttl |-> CacheTimeout],
            !.stored[r] = [valid |-> TRUE, value |-> v, age |-> 0,
                           lost |-> FALSE]]

cacheDelete(s, r) == [s EXCEPT !.cache[r] = NoEntry]

\* ------------------------------------------------------- operation queue
\* batchReadRegister's .then / .catch on the read's promise
ReadSettled(s, o, ok, v) ==
  IF ok THEN [setCachedValue(s, s.ops[o].arg, v) EXCEPT
                !.pendingReads[s.ops[o].arg] = 0]
  ELSE [s EXCEPT !.pendingReads[s.ops[o].arg] = 0]

\* executeCharacteristicOperation after Promise.race: the callback is invoked
\* unless the race was already decided by the timeout
CallSettled(s, o, ok, v) ==
  IF s.ops[o].cb # "none" THEN s
  ELSE [s EXCEPT !.ops[o].timer = FALSE,
                 !.ops[o].cb = IF ~ok THEN "error"
                               ELSE IF s.ops[o].kind \in {"getOn", "getSpeed"}
                                    THEN "value" ELSE "ack",
                 !.ops[o].cbValue = IF ok THEN v ELSE 0,
                 !.ops[o].cbCount = @ + 1]

\* resolve / reject of the promise returned by addToQueue
Resolve(s, o, ok, v) ==
  IF s.ops[o].kind = "read"
  THEN ReadSettled([s EXCEPT !.ops[o].result = IF ok THEN "ok" ELSE "err",
                             !.ops[o].value = IF ok THEN v ELSE 0], o, ok, v)
  ELSE CallSettled([s EXCEPT !.ops[o].result = IF ok THEN "ok" ELSE "err",
                             !.ops[o].value = IF ok THEN v ELSE 0], o, ok, v)

\* processQueue's "Strict throttling": the sleep before an operation
ThrottleWait(s) ==
  IF s.sinceOperation < OperationThrottle
  THEN OperationThrottle - s.sinceOperation ELSE 0

\* the operation is started whatever the time since the last one
processQueueLoop_unthrottled(s) ==
  IF s.operationQueue # <<>> /\ ~s.isCleaningUp
  THEN Call([s EXCEPT !.ops = [o \in OpIds |->
                                 IF o = Head(s.operationQueue)
                                 THEN [s.ops[o] EXCEPT !.pc = "throttle",
                                                       !.wait = 0]
                                 ELSE [s.ops[o] EXCEPT
                                         !.earlier = @ \ {Head(s.operationQueue)}]],
                      !.operationQueue = Tail(@)],
            It("start", "op", Head(s.operationQueue), TRUE, 0))
  ELSE [s EXCEPT !.isProcessingQueue = FALSE]

\* processQueue's while loop: take the next operation and sleep until
\* operationThrottle ms have passed since lastOperation, or start it at once;
\* or leave (finally)
processQueueLoop(s) ==
  IF s.operationQueue # <<>> /\ ~s.isCleaningUp
  THEN LET shifted ==
             [s EXCEPT !.ops = [o \in OpIds |->
                                  IF o = Head(s.operationQueue)
                                  THEN [s.ops[o] EXCEPT !.pc = "throttle",
                                                        !.wait = ThrottleWait(s)]
                                  ELSE [s.ops[o] EXCEPT
                                          !.earlier = @ \ {Head(s.operationQueue)}]],
                       !.operationQueue = Tail(@)]
       IN IF ThrottleWait(s) > 0 THEN shifted
          ELSE Call(shifted, It("start", "op", Head(s.operationQueue), TRUE, 0))
  ELSE [s EXCEPT !.isProcessingQueue = FALSE]

\* processQueue without its "already processing" test
processQueue_reentrant(s) ==
  IF s.operationQueue = <<>> \/ s.isCleaningUp
  THEN s
  ELSE processQueueLoop([s EXCEPT !.isProcessingQueue = TRUE])

processQueue(s) ==
  IF s.isProcessingQueue \/ s.operationQueue = <<>> \/ s.isCleaningUp
  THEN s
  ELSE processQueueLoop([s EXCEPT !.isProcessingQueue = TRUE])

\* the operation ended: queuedOperation's finally (activeOperations.delete),
\* the promise of addToQueue settles, and processQueue, which awaited the
\* operation, updates the health, sets lastOperation and goes round its
\* loop.  queuedOperation hands the error of a failed operation to reject()
\* and returns normally, so processQueue's "await operation()" never throws
\* and the outcome it records is a success.
OpSettle(s, it) ==
  processQueueLoop(
    [updateConnectionHealth(
       Resolve([s EXCEPT !.ops[it.o].pc = "done", !.ops[it.o].await = 0,
                         !.activeOperations = @ \ {it.o},
                         !.sinceCompletion = 0], it.o, it.ok, it.v), TRUE)
       EXCEPT !.sinceOperation = 0])

\* the queue is kept in the order of admission, whatever the priority
addToQueue_push(s, o, priority) ==
  IF s.isCleaningUp
     \/ Cardinality(s.activeOperations) >= MaxConcurrentOperations
  THEN Resolve([s EXCEPT !.ops[o].pc = "refused"], o, FALSE, 0)
  ELSE processQueue(
         [s EXCEPT !.ops[o].priority = priority,
                   !.ops[o].earlier =
                     {s.operationQueue[n] : n \in DOMAIN s.operationQueue},
                   !.operationQueue = Append(@, o)])

\* addToQueue(operation, priority) for the operation o (already entered in
\* ops): unshift with priority, push without
addToQueue(s, o, priority) ==
  IF s.isCleaningUp
     \/ Cardinality(s.activeOperations) >= MaxConcurrentOperations
  THEN Resolve([s EXCEPT !.ops[o].pc = "refused"], o, FALSE, 0)
  ELSE processQueue(
         [s EXCEPT !.ops[o].priority = priority,
                   !.ops[o].earlier =
                     {s.operationQueue[n] : n \in DOMAIN s.operationQueue},
                   !.operationQueue = IF priority THEN <<o>> \o @
                                      ELSE Append(@, o)])

\* a settled promise nobody waits for any more is garbage: an operation
\* that ended (or was refused, or dropped by doCleanup), whose callback can no
\* longer be invoked and whose result no closure or probe awaits
Garbage(s, o) ==
  /\ s.ops[o].pc \in {"done", "refused", "dropped"}
  /\ ~s.ops[o].timer
  /\ \A p \in OpIds : ~(s.ops[p].pc = "awaitRead" /\ s.ops[p].await = o)
  /\ \A n \in DOMAIN s.probes : s.probes[n] # o
  /\ \A r \in Registers : s.pendingReads[r] # o

\* a ModbusRTU object that is closed (or never connected) and referenced by
\* nothing any more
GarbageHandle(s, h) ==
  /\ s.handle[h] \in {"closed", "failed"}
  /\ s.client # h /\ s.connHandle # h /\ s.connectionId # h
  /\ \A rq \in s.requests : rq.handle # h

Gc(s) ==
  [s EXCEPT !.ops = [o \in OpIds |-> IF Garbage(s, o) THEN NoOp ELSE s.ops[o]],
            !.handle = [h \in Handles |->
                          IF GarbageHandle(s, h) THEN "unused" ELSE s.handle[h]]]

\* the slot of the next operation created (0: n operations are alive)
FreeOpOf(s, n) ==
  IF Cardinality({o \in OpIds : s.ops[o].pc # "none"}) < n
  THEN CHOOSE o \in OpIds : /\ s.ops[o].pc = "none"
                            /\ \A p \in 1..(o - 1) : s.ops[p].pc # "none"
  ELSE 0

FreeOp(s) == FreeOpOf(s, MaxOps)

\* the slot of the next ModbusRTU object created (0: MaxHandles are in use)
FreeHandle(s) ==
  IF \E h \in Handles : s.handle[h] = "unused"
  THEN CHOOSE h \in Handles : /\ s.handle[h] = "unused"
                              /\ \A g \in 1..(h - 1) : s.handle[g] # "unused"
  ELSE 0

\* batchReadRegister(it.v): leaves in ret out = "hit" (v the cached value),
\* "await" (v the read whose promise is returned; new: the read was created
\* by this call), "rejected" (the promise returned is already rejected)
batchReadRegister(s, it) ==
  LET r  == it.v
      s0 == getCachedValue(s, r)
      o  == FreeOp(s)
  IN IF s0.cache[r].present
     THEN [s0 EXCEPT !.ret = [out |-> "hit", v |-> s0.cache[r].value,
                              new |-> FALSE]]
     ELSE IF s.pendingReads[r] # 0
     THEN [s0 EXCEPT !.ret = [out |-> "await", v |-> s.pendingReads[r],
                              new |-> FALSE]]
     ELSE IF o = 0 THEN [s0 EXCEPT !.overflow = TRUE]
     ELSE IF s.isCleaningUp
             \/ Cardinality(s.activeOperations) >= MaxConcurrentOperations
     THEN [addToQueue([s0 EXCEPT !.ops[o] = NewOp("read", r)], o, FALSE) EXCEPT
             !.ret = [out |-> "rejected", v |-> o, new |-> TRUE]]
     ELSE [addToQueue([s0 EXCEPT !.ops[o] = NewOp("read", r)], o, FALSE) EXCEPT
             !.pendingReads[r] = o,
             !.ret = [out |-> "await", v |-> o, new |-> TRUE]]

\* a device request issued on this.client
Issue(s, o, write, r, v, stage) ==
  [s EXCEPT !.requests = @ \cup {[op |-> o, handle |-> s.client,
                                  write |-> write, reg |-> r, val |-> v]},
            !.ops[o].pc = "io", !.ops[o].stage = stage,
            !.ops[o].writes = IF write THEN Append(@, <<r, v>>) ELSE @,
            !.stored[r] = IF write THEN NoStored ELSE @]

\* the raw register value is handed to the caller
RegimeToOn_raw(v) == v

\* handleOnGetOn: isOn = value === 0 ? 0 : 1
RegimeToOn(v) == IF v = 0 THEN 0 ELSE 1

\* handleOnSetOn: setValue = value >= 1 ? 2 : 0
OnToRegime(x) == IF x >= 1 THEN OnSentinel ELSE 0

GetResult(kind, v) == IF kind = "getOn" THEN RegimeToOn(v) ELSE v

\* the device is switched on whenever it is off, whatever the speed
SetSpeedAfterState_anySpeed(s, o, state) ==
  IF s.client = 0 THEN Call(s, It("fail", "op", o, FALSE, 0))
  ELSE IF state = 0
  THEN Issue([s EXCEPT !.ops[o].state = state], o, TRUE,
             RegimeRegister, OnSentinel, "regime")
  ELSE Issue([s EXCEPT !.ops[o].state = state], o, TRUE,
             SpeedRegister, s.ops[o].arg, "speed")

\* handleOnSetSpeed after "state = await batchReadRegister(regimeRegister)"
SetSpeedAfterState(s, o, state) ==
  IF s.client = 0 THEN Call(s, It("fail", "op", o, FALSE, 0))
  ELSE IF state = 0 /\ s.ops[o].arg > 0
  THEN Issue([s EXCEPT !.ops[o].state = state], o, TRUE,
             RegimeRegister, OnSentinel, "regime")
  ELSE Issue([s EXCEPT !.ops[o].state = state], o, TRUE,
             SpeedRegister, s.ops[o].arg, "speed")

\* operation(): the closure of the handler (or of batchReadRegister), run up
\* to its first await
OpRun(s, it) ==
  LET o  == it.o
      op == s.ops[o]
      s0 == [s EXCEPT !.ops[o].writes = <<>>, !.ops[o].state = 0,
                      !.ops[o].slept = 0, !.ops[o].joined = FALSE]
  IN IF op.kind \in {"getOn", "getSpeed"}
     THEN Call2(s0, It("batchReadRegister", "op", o, TRUE,
                       IF op.kind = "getOn" THEN RegimeRegister
                                            ELSE SpeedRegister),
                    It("afterRead", "op", o, TRUE, 0))
     ELSE IF s.client = 0 THEN Call(s0, It("fail", "op", o, FALSE, 0))
     ELSE IF op.kind = "read" THEN Issue(s0, o, FALSE, op.arg, 0, "read")
     ELSE IF op.kind = "setOn"
     THEN Issue(s0, o, TRUE, RegimeRegister, OnToRegime(op.arg), "regime")
     ELSE \* setSpeed
          Call2(s0, It("batchReadRegister", "op", o, TRUE, RegimeRegister),
                    It("afterRead", "op", o, TRUE, 0))

\* the handler's closure after "await this.batchReadRegister(...)" returned
\* a promise: a cache hit goes on at once, a read is awaited, a rejection is
\* thrown
AfterRead(s, it) ==
  LET o == it.o
  IN CASE s.ret.out = "hit" ->
            IF s.ops[o].kind = "setSpeed"
            THEN SetSpeedAfterState(s, o, s.ret.v)
            ELSE Call(s, It("settle", "op", o, TRUE,
                            GetResult(s.ops[o].kind, s.ret.v)))
       [] s.ret.out = "await" ->
            [s EXCEPT !.ops[o].pc = "awaitRead", !.ops[o].await = s.ret.v,
                      !.ops[o].joined = ~s.ret.new]
       [] OTHER -> Call(s, It("fail", "op", o, FALSE, 0))

\* executeWithRetry: operation() threw.  First try: handleConnectionFailure,
\* connectModbusClient, then operation() once more; second try: rejected
OpFail(s, it) ==
  IF s.ops[it.o].attempt = 1
  THEN Call(handleConnectionFailure(
              [s EXCEPT !.ops[it.o].attempt = 2,
                        !.ops[it.o].pc = "retryconnect",
                        !.ops[it.o].await = 0]),
            It("connectModbusClient", "op", it.o, TRUE, 0))
  ELSE Call(s, It("settle", "op", it.o, FALSE, 0))

\* executeWithRetry after the wait loop
executeWithRetry_run(s, it) ==
  IF ~s.isConnected THEN Call(s, It("settle", "op", it.o, FALSE, 0))
  ELSE Call([s EXCEPT !.ops[it.o].attempt = 1],
            It("operation", "op", it.o, TRUE, 0))

\* executeWithRetry: while (isConnecting && waitCount < 50) sleep(100)
executeWithRetry_wait(s, it) ==
  IF s.isConnecting THEN [s EXCEPT !.ops[it.o].pc = "poll"]
  ELSE Call(s, It("run", "op", it.o, TRUE, 0))

\* executeWithRetry: an awaited connectModbusClient() has returned (ok) or
\* thrown
executeWithRetry_connected(s, it) ==
  IF ~it.ok THEN Call(s, It("settle", "op", it.o, FALSE, 0))
  ELSE IF s.ops[it.o].pc = "preconnect"
  THEN Call(s, It("wait", "op", it.o, TRUE, 0))
  ELSE IF s.isConnected THEN Call(s, It("operation", "op", it.o, TRUE, 0))
  ELSE Call(s, It("settle", "op", it.o, FALSE, 0))

\* queuedOperation starts the closure of executeWithRetry
executeWithRetry(s, o) ==
  IF ~s.isConnected /\ ~s.isConnecting
  THEN Call([s EXCEPT !.ops[o].pc = "preconnect",
                      !.activeOperations = @ \cup {o}],
            It("connectModbusClient", "op", o, TRUE, 0))
  ELSE Call([s EXCEPT !.activeOperations = @ \cup {o}],
            It("wait", "op", o, TRUE, 0))

\* ------------------------------------------------------------- connection
\* A caller of connectModbusClient is "init" (initializeConnection), "timer"
\* (the reconnect timer's callback) or "op" (executeWithRetry of operation o).

\* AsyncMutex.execute after its while loop: lock, and the operation starts
MutexAcquire(s) ==
  [s EXCEPT !.mutexLocked = TRUE, !.mutexHolders = @ + 1]

\* a finally that unlocks and leaves the waiters asleep
MutexRelease_noWake(s) ==
  [s EXCEPT !.mutexLocked = FALSE, !.mutexHolders = @ - 1]

\* AsyncMutex.execute, finally: unlock and wake the first waiter
MutexRelease(s) ==
  IF s.mutexWait = <<>>
  THEN [s EXCEPT !.mutexLocked = FALSE, !.mutexHolders = @ - 1]
  ELSE [s EXCEPT !.mutexLocked = FALSE, !.mutexHolders = @ - 1,
                 !.mutexWait = Tail(@),
                 !.mutexWoken = @ \cup {Head(s.mutexWait)}]

\* connectModbusClient returns to its caller (it.ok) or throws: the mutex is
\* released and the code that awaited it goes on
ConnectReturn(s, it) ==
  CASE it.who = "init" ->
         IF it.ok THEN startHeartbeat(MutexRelease(s))
         ELSE scheduleReconnect(MutexRelease(s))
    [] it.who = "timer" ->
         IF it.ok
         THEN IF s.isConnected
              THEN startHeartbeat(
                     [MutexRelease(s) EXCEPT !.timerCallback = FALSE])
              ELSE [MutexRelease(s) EXCEPT !.timerCallback = FALSE]
         ELSE IF s.isCleaningUp
         THEN [MutexRelease(s) EXCEPT !.timerCallback = FALSE]
         ELSE scheduleReconnect(
                [MutexRelease(s) EXCEPT !.timerCallback = FALSE])
    [] OTHER -> Call(MutexRelease(s), It("connected", "op", it.o, it.ok, 0))

\* forceCloseConnection up to its await
forceCloseConnection_begin(s) ==
  IF s.client = 0 THEN s
  ELSE [s EXCEPT !.isDisconnecting = TRUE, !.handle[s.client] = "closed"]

\* forceCloseConnection after the await: the graceful close was confirmed, or
\* it timed out and this.client (as it is now) is closed unconditionally
forceCloseConnection_end(s, graceful) ==
  [s EXCEPT !.handle = [h \in Handles |->
                          IF ~graceful /\ h = s.client THEN "closed"
                          ELSE s.handle[h]],
            !.client = 0, !.isConnected = FALSE,
            !.isDisconnecting = FALSE, !.connectionId = 0]

\* doConnect up to its first await
doConnect(s, it) ==
  forceCloseConnection_begin(
    [s EXCEPT !.isConnecting = TRUE, !.sinceAttempt = 0,
              !.lastGap = s.sinceAttempt,
              !.connCaller = <<it.who, it.o>>,
              !.connPc = IF s.client = 0 THEN "quiesce" ELSE "closing"])

\* doConnect's catch / finally, then the return to the caller
doConnect_failed(s) ==
  Call([s EXCEPT !.isConnected = FALSE,
                 !.connectionRetryCount = @ + 1,
                 !.overflow = @ \/ s.connectionRetryCount > MaxRetries,
                 !.isConnecting = FALSE, !.connPc = "idle",
                 !.connCaller = <<"none", 0>>, !.connHandle = 0],
       It("return", s.connCaller[1], s.connCaller[2], FALSE, 0))

\* a resolved connectTCP is adopted whatever connectionId has become
doConnect_resolved_adopt(s) ==
  Call(clearReconnectTimeout(clearCache(Forget(
         [s EXCEPT !.isConnected = TRUE, !.connectionRetryCount = 0,
                   !.isConnecting = FALSE, !.connPc = "idle",
                   !.connCaller = <<"none", 0>>, !.connHandle = 0]))),
       It("return", s.connCaller[1], s.connCaller[2], TRUE, 0))

\* a successful connect that leaves connectionRetryCount as it is
doConnect_resolved_keepCount(s) ==
  IF s.connectionId # s.connHandle THEN doConnect_failed(s)
  ELSE Call(clearReconnectTimeout(clearCache(Forget(
              [s EXCEPT !.isConnected = TRUE,
                        !.isConnecting = FALSE, !.connPc = "idle",
                        !.connCaller = <<"none", 0>>, !.connHandle = 0]))),
            It("return", s.connCaller[1], s.connCaller[2], TRUE, 0))

\* doConnect after connectTCP resolved
doConnect_resolved(s) ==
  IF s.connectionId # s.connHandle THEN doConnect_failed(s)
  ELSE Call(clearReconnectTimeout(clearCache(Forget(
              [s EXCEPT !.isConnected = TRUE, !.connectionRetryCount = 0,
                        !.isConnecting = FALSE, !.connPc = "idle",
                        !.connCaller = <<"none", 0>>, !.connHandle = 0]))),
            It("return", s.connCaller[1], s.connCaller[2], TRUE, 0))

\* connectModbusClient without its "too soon" test
connectModbusClient_eager(s, it) ==
  IF s.mutexLocked
  THEN [s EXCEPT !.mutexWait = Append(@, <<it.who, it.o>>)]
  ELSE IF s.isConnected /\ ~s.isDisconnecting
  THEN Call(MutexAcquire(s),
            It("return", it.who, it.o, TRUE, 0))
  ELSE IF s.isCleaningUp
  THEN Call(MutexAcquire(s),
            It("return", it.who, it.o, FALSE, 0))
  ELSE doConnect(MutexAcquire(s), it)

\* connectModbusClient = connectionMutex.execute(...): wait while locked; then
\* the function run under the mutex
connectModbusClient(s, it) ==
  IF s.mutexLocked
  THEN [s EXCEPT !.mutexWait = Append(@, <<it.who, it.o>>)]
  ELSE IF s.isConnected /\ ~s.isDisconnecting
  THEN Call(MutexAcquire(s),
            It("return", it.who, it.o, TRUE, 0))
  ELSE IF s.sinceAttempt < MinAttemptGap \/ s.isCleaningUp
  THEN Call(MutexAcquire(s),
            It("return", it.who, it.o, FALSE, 0))
  ELSE doConnect(MutexAcquire(s), it)

\* ---------------------------------------------------------------- cleanup
\* doCleanup: "Close connection"
doCleanup_close(s) ==
  forceCloseConnection_begin(
    [s EXCEPT !.cleanPc = IF s.client = 0 THEN "unregister" ELSE "closing"])

\* doCleanup up to its first await: timers cancelled (heartbeat, reconnect and
\* every timer of timeoutRegistry, i.e. the handlers' operation timeouts),
\* queue, pending reads and cache emptied
doCleanup(s) ==
  [clearCache(clearReconnectTimeout(stopHeartbeat(
     Lose(Lose(s, RegimeRegister), SpeedRegister)))) EXCEPT
     !.ops = [o \in OpIds |->
                [s.ops[o] EXCEPT !.timer = FALSE, !.earlier = {},
                                 !.pc = IF @ = "queued" THEN "dropped" ELSE @]],
     !.operationQueue = <<>>, !.isProcessingQueue = FALSE,
     !.heartbeatTimers = 0,
     !.cleanPc = "waitOps", !.cleanups = @ + 1]

\* every call of cleanup() runs doCleanup
cleanup_unguarded(s) ==
  IF s.activeOperations # {}
  THEN doCleanup([s EXCEPT !.isCleaningUp = TRUE])
  ELSE doCleanup_close(doCleanup([s EXCEPT !.isCleaningUp = TRUE]))

\* cleanup() (disconnect, forceCleanup): runs doCleanup once; without active
\* operations it goes on to close the connection
cleanup(s) ==
  IF s.isCleaningUp THEN s
  ELSE IF s.activeOperations # {}
  THEN doCleanup([s EXCEPT !.isCleaningUp = TRUE])
  ELSE doCleanup_close(doCleanup([s EXCEPT !.isCleaningUp = TRUE]))

\* --------------------------------------------------------------- heartbeat
\* the heartbeat timer's callback after performHealthCheck returned
heartbeat_ok(s) ==
  IF s.isConnected /\ ~s.isCleaningUp THEN startHeartbeat(s) ELSE s

\* the heartbeat timer's callback: performHealthCheck up to its await
performHealthCheck(s) ==
  IF ~s.isConnected \/ s.isCleaningUp \/ s.isConnecting \/ s.isDisconnecting
  THEN heartbeat_ok(s)
  ELSE Call2(s, It("batchReadRegister", "timer", 0, TRUE, RegimeRegister),
                It("afterProbe", "timer", 0, TRUE, 0))

\* performHealthCheck after batchReadRegister returned a promise
AfterProbe(s, it) ==
  CASE s.ret.out = "hit" -> heartbeat_ok(updateConnectionHealth(s, TRUE))
    [] s.ret.out = "await" -> [s EXCEPT !.probes = Append(@, s.ret.v),
                                        !.probeAge = Append(@, 0)]
    [] OTHER -> handleConnectionFailure(updateConnectionHealth(s, FALSE))

\* ------------------------------------------------------------- the calls
\* one call of todo
Exec(s, it) ==
  CASE it.f = "connectModbusClient" -> connectModbusClient(s, it)
    [] it.f = "return"              -> ConnectReturn(s, it)
    [] it.f = "connected"           -> executeWithRetry_connected(s, it)
    [] it.f = "wait"                -> executeWithRetry_wait(s, it)
    [] it.f = "run"                 -> executeWithRetry_run(s, it)
    [] it.f = "operation"           -> OpRun(s, it)
    [] it.f = "batchReadRegister"   -> batchReadRegister(s, it)
    [] it.f = "afterRead"           -> AfterRead(s, it)
    [] it.f = "afterProbe"          -> AfterProbe(s, it)
    [] it.f = "fail"                -> OpFail(s, it)
    [] it.f = "start"               -> executeWithRetry(s, it.o)
    [] OTHER                        -> OpSettle(s, it)

RECURSIVE Run(_)
\* the calls of todo, first to last, each with the calls it makes
Run(s) ==
  IF s.todo = <<>> THEN [s EXCEPT !.ret = NoRet]
  ELSE Run(Exec([s EXCEPT !.todo = Tail(@)], Head(s.todo)))

\* ------------------------------------------------------------ the platform
\* A number of the configuration: undefined (def = FALSE), the integer v, or
\* the number v + 1/2 (int = FALSE)
Undef   == [def |-> FALSE, int |-> TRUE, v |-> 0]
Num(v)  == [def |-> TRUE, int |-> TRUE, v |-> v]
Frac(v) == [def |-> TRUE, int |-> FALSE, v |-> v]

\* config.ip as the numbers between its dots (<<>>: no ip configured)
ConfigIps       == {<<>>, <<10, 0, 0, 5>>, <<10, 0, 0, OctetMax + 1>>, <<10, 0, 5>>}
ConfigPorts     == {Undef, Num(502), Num(0), Num(PortMax + 1), Frac(502)}
ConfigRegisters == {Undef, Num(0), Num(RegimeRegister), Num(SpeedRegister),
                    Num(RegisterMax + 1), Frac(RegimeRegister)}
ConfigRetries   == {Undef, Num(0), Num(MaxRetries)}

Configs ==
  [ip : ConfigIps, port : ConfigPorts, regimeRegister : ConfigRegisters,
   speedRegister : ConfigRegisters, maxRetries : ConfigRetries]

DefaultConfig ==
  [ip |-> <<>>, port |-> Undef, regimeRegister |-> Undef,
   speedRegister |-> Undef, maxRetries |-> Undef]

NoPlatform(c) ==
  [built |-> FALSE, config |-> c, configValidationErrors |-> {},
   \* setupEventHandlers ran: didFinishLaunching and shutdown are handled
   handlers |-> FALSE,
   \* this.regimeRegister and this.speedRegister, unassigned before the
   \* constructor
   regimeRegister |-> Undef, speedRegister |-> Undef,
   shutdownInitiated |-> FALSE, cleanupPc |-> "idle",
   cleanupHandled |-> FALSE,
   \* a call of the static HRUAccessory.cleanupAllInstances(): its position,
   \* the instances whose cleanup() it awaits, and the instances that were
   \* constructed when it was called
   sweepPc |-> "idle", sweepOf |-> {}, sweepSeen |-> {},
   \* forceReconnectAll: not called, awaiting the accessories' disconnect(),
   \* or completed
   reconnectPc |-> "idle",
   \* promises are named by the initiateShutdown call that created them
   \* (0: undefined): this.cleanupPromise and what the last call returned
   cleanupPromise |-> 0, returned |-> 0,
   \* calls of initiateShutdown, runs of performCleanup's body, and
   \* disconnect() requests made to each accessory of hruAccessories
   shutdownCalls |-> 0, cleanupRuns |-> 0, disconnectRequests |-> 0,
   \* this.accessories (restored from the cache), this.hruAccessories, and
   \* the accessories handed to api.registerPlatformAccessories
   accessories |-> 0, hruAccessories |-> 0, registered |-> 0,
   healthCheckInterval |-> FALSE, diagnosticsInterval |-> FALSE,
   consecutiveHealthCheckFailures |-> 0, lastDiagnostics |-> FALSE]

\* isValidIP: four numbers 0..255 separated by dots
isValidIP(ip) == Len(ip) = 4 /\ \A n \in 1..4 : ip[n] \in 0..OctetMax

\* Number.isInteger(x) && lo <= x && x <= hi
IntegerIn(x, lo, hi) == x.int /\ lo <= x.v /\ x.v <= hi

\* the validation without its port and register range tests
validateConfiguration_lax(c) ==
  {e \in {"ip", "registers", "maxRetries"} :
     \/ e = "ip" /\ c.ip # <<>> /\ ~isValidIP(c.ip)
     \/ e = "registers" /\ c.regimeRegister.def /\ c.speedRegister.def
          /\ c.regimeRegister = c.speedRegister
     \/ e = "maxRetries" /\ c.maxRetries.def /\ c.maxRetries.v < 1}

\* validateConfiguration: the errors pushed to configValidationErrors
validateConfiguration(c) ==
  {e \in {"ip", "port", "regimeRegister", "speedRegister", "registers",
          "maxRetries"} :
     \/ e = "ip" /\ c.ip # <<>> /\ ~isValidIP(c.ip)
     \/ e = "port" /\ c.port.def /\ ~IntegerIn(c.port, 1, PortMax)
     \/ e = "regimeRegister" /\ c.regimeRegister.def
          /\ ~IntegerIn(c.regimeRegister, 0, RegisterMax)
     \/ e = "speedRegister" /\ c.speedRegister.def
          /\ ~IntegerIn(c.speedRegister, 0, RegisterMax)
     \/ e = "registers" /\ c.regimeRegister.def /\ c.speedRegister.def
          /\ c.regimeRegister = c.speedRegister
     \/ e = "maxRetries" /\ c.maxRetries.def /\ c.maxRetries.v < 1}

\* x || d on a configured number: undefined and 0 are falsy
OrDefault(x, d) == IF ~x.def \/ (x.int /\ x.v = 0) THEN Num(d) ELSE x

\* new HRUPlatform(log, config, api)
HRUPlatform(p) ==
  [p EXCEPT !.built = TRUE,
            !.regimeRegister = OrDefault(p.config.regimeRegister, RegimeRegister),
            !.speedRegister = OrDefault(p.config.speedRegister, SpeedRegister),
            !.configValidationErrors = validateConfiguration(p.config),
            !.handlers = (validateConfiguration(p.config) = {}),
            !.diagnosticsInterval = (validateConfiguration(p.config) = {})]

\* discoverDevices goes as far as creating the accessory
CanDiscover(p) ==
  /\ ~p.shutdownInitiated
  /\ p.configValidationErrors = {}
  /\ p.hruAccessories < MaxDevicesPerPlatform

\* discoverDevices after new HRUAccessory(...): a restored accessory is not
\* registered again
discoverDevices(p) ==
  [p EXCEPT !.hruAccessories = @ + 1,
            !.registered = IF p.accessories = 0 THEN @ + 1 ELSE @,
            !.healthCheckInterval = TRUE]

\* the platform's performHealthCheck: healthy is the verdict on the device
performHealthCheck_platform(p, healthy) ==
  [p EXCEPT !.lastDiagnostics = TRUE,
            !.consecutiveHealthCheckFailures =
               IF p.hruAccessories = 0 THEN @
               ELSE IF healthy THEN 0
               ELSE IF @ < HealthAlarm THEN @ + 1 ELSE @]

\* stopPlatformIntervals
stopPlatformIntervals(p) ==
  [p EXCEPT !.healthCheckInterval = FALSE, !.diagnosticsInterval = FALSE]

\* performCleanup up to its first await
performCleanup(p) ==
  IF p.cleanupHandled THEN p
  ELSE [stopPlatformIntervals(p) EXCEPT
          !.cleanupHandled = TRUE, !.cleanupRuns = @ + 1,
          !.disconnectRequests =
             IF p.hruAccessories > 0 THEN @ + 1 ELSE @,
          !.cleanupPc = "devices"]

\* initiateShutdown without its shutdownInitiated test
initiateShutdown_again(p) ==
  [performCleanup([p EXCEPT !.shutdownInitiated = TRUE]) EXCEPT
     !.shutdownCalls = @ + 1,
     !.cleanupPromise = p.shutdownCalls + 1,
     !.returned = p.shutdownCalls + 1]

\* initiateShutdown
initiateShutdown(p) ==
  IF p.shutdownInitiated
  THEN [p EXCEPT !.shutdownCalls = @ + 1, !.returned = p.cleanupPromise]
  ELSE [performCleanup([p EXCEPT !.shutdownInitiated = TRUE]) EXCEPT
          !.shutdownCalls = @ + 1,
          !.cleanupPromise = p.shutdownCalls + 1,
          !.returned = p.shutdownCalls + 1]

\* ================================================================ actions
Speeds == {0, 50}
Calls  == ({"getOn", "getSpeed"} \X {0}) \cup ({"setOn"} \X {0, 1})
             \cup ({"setSpeed"} \X Speeds)

Init ==
  /\ inst = [i \in Inst |-> Fresh("", FALSE)]
  /\ activeConnections = [k \in Endpoints |-> 0]
  /\ instanceCount = 0
  /\ platform = NoPlatform(DefaultConfig)
  /\ \E v \in {0, OnSentinel} :
       device = [k \in Endpoints |->
                   [r \in Registers |-> IF r = RegimeRegister THEN v ELSE 0]]

\* instance i takes the step to s (a step that would exceed a bound is not
\* taken)
Step(i, s) ==
  /\ ~s.overflow
  /\ inst' = [inst EXCEPT ![i] = s]

\* instance i as the next step finds it
Cur(i) == Gc(inst[i])

\* the environment fails (ok = FALSE) at most budget times per instance
Fault(s, ok) ==
  IF ok THEN s
  ELSE [s EXCEPT !.faults = @ + 1, !.overflow = (s.faults >= s.budget)]

\* new HRUAccessory(platform, accessory) with platform.ip:port = k:
\* checkForDuplicateConnections, registration, initializeConnection
Construct(i, k) ==
  /\ ~inst[i].constructed
  /\ \A j \in 1..(i - 1) : inst[j].constructed
  /\ inst' = [j \in Inst |->
                IF j = i
                THEN Run(Call([Fresh(k, TRUE) EXCEPT
                                 !.budget = inst[i].budget,
                                 !.healthBound = inst[i].healthBound],
                              It("connectModbusClient", "init", 0, TRUE, 0)))
                ELSE IF j = activeConnections[k]
                THEN [cleanup(Cur(j)) EXCEPT !.replacedBy = i]
                ELSE inst[j]]
  /\ activeConnections' = [activeConnections EXCEPT ![k] = i]
  /\ instanceCount' = instanceCount + 1
  /\ UNCHANGED device

\* accessory.disconnect()
Disconnect(i) ==
  /\ inst[i].constructed
  /\ inst[i].calls < MaxCalls
  /\ Step(i, cleanup([Cur(i) EXCEPT !.calls = @ + 1]))
  /\ UNCHANGED <<activeConnections, instanceCount, device, platform>>

\* doCleanup: "Unregister instance"
Unregister(i) ==
  /\ activeConnections' =
       [activeConnections EXCEPT ![inst[i].connectionKey] = 0]
  /\ instanceCount' = Max(0, instanceCount - 1)

\* HRUAccessory.cleanupAllInstances() up to its await: cleanup() of every
\* value of activeConnections
CleanupAll_begin ==
  /\ platform.sweepPc = "idle"
  /\ \E i \in Inst : inst[i].constructed
  /\ LET instances == {activeConnections[k] : k \in Endpoints} \ {0} IN
       /\ inst' = [i \in Inst |->
                     IF i \in instances THEN cleanup(Cur(i)) ELSE inst[i]]
       /\ platform' = [platform EXCEPT
                          !.sweepPc = "running", !.sweepOf = instances,
                          !.sweepSeen = {i \in Inst : inst[i].constructed}]
  /\ UNCHANGED <<activeConnections, instanceCount, device>>

\* cleanupAllInstances(): every awaited cleanup() promise resolved
CleanupAll_resolved ==
  /\ platform.sweepPc = "running"
  /\ \A i \in platform.sweepOf : inst[i].cleanPc = "done"
  /\ platform' = [platform EXCEPT !.sweepPc = "done"]
  /\ UNCHANGED <<inst, activeConnections, instanceCount, device>>

\* doCleanup: the wait for the active operations ended (all done, or 5 s)
Cleanup_opsDone(i) ==
  /\ inst[i].cleanPc = "waitOps"
  /\ Step(i, doCleanup_close(Cur(i)))
  /\ UNCHANGED <<activeConnections, instanceCount, device, platform>>

\* doCleanup: forceCloseConnection returned at once (no client)
Cleanup_unregister(i) ==
  /\ inst[i].cleanPc = "unregister"
  /\ Step(i, [Cur(i) EXCEPT !.cleanPc = "done", !.unregisters = @ + 1])
  /\ Unregister(i)
  /\ UNCHANGED <<device, platform>>

\* doCleanup: forceCloseConnection ended
Cleanup_closed(i, graceful) ==
  /\ inst[i].cleanPc = "closing"
  /\ Step(i, [forceCloseConnection_end(Fault(Cur(i), graceful), graceful)
                EXCEPT !.cleanPc = "done", !.unregisters = @ + 1])
  /\ Unregister(i)
  /\ UNCHANGED <<device, platform>>

\* time passes: every clock advances by d
Advance(s, d) ==
  [s EXCEPT
     !.sinceAttempt = Min(@ + d, MinAttemptGap),
     !.sinceOperation = Min(@ + d, OperationThrottle),
     !.heartbeatAge = IF s.heartbeatTimeout
                      THEN Min(@ + d, HeartbeatDue) ELSE @,
     !.probeAge = [n \in DOMAIN s.probeAge |->
                     Min(s.probeAge[n] + d, HeartbeatTimeoutMs)],
     !.sinceCompletion = Min(@ + d, OperationThrottle),
     !.cache = [r \in Registers |->
                  IF s.cache[r].present
                  THEN [s.cache[r] EXCEPT !.age = Min(@ + d, s.cache[r].ttl + 1)]
                  ELSE s.cache[r]],
     !.stored = [r \in Registers |->
                   IF s.stored[r].valid /\ s.stored[r].age + d <= CacheTimeout
                   THEN [s.stored[r] EXCEPT !.age = @ + d]
                   ELSE NoStored],
     !.ops = [o \in OpIds |->
                IF s.ops[o].pc = "sleep"
                THEN [s.ops[o] EXCEPT !.slept = Min(@ + d, AutoOnWaitMs)]
                ELSE IF s.ops[o].pc = "throttle"
                THEN [s.ops[o] EXCEPT !.wait = Max(0, @ - d)]
                ELSE s.ops[o]]]

\* (a probe that has lasted HeartbeatTimeoutMs ends before time goes on: its
\* read settles, or it times out)
Tick(d) ==
  /\ \E i \in Inst : inst[i].constructed /\ Advance(Cur(i), d) # Cur(i)
  /\ \A i \in Inst : \A n \in DOMAIN inst[i].probeAge :
       inst[i].probeAge[n] < HeartbeatTimeoutMs
  /\ inst' = [i \in Inst |->
                IF inst[i].constructed THEN Advance(Cur(i), d) ELSE inst[i]]
  /\ UNCHANGED <<activeConnections, instanceCount, device, platform>>

\* AsyncMutex.execute: a woken waiter tests "while (this.locked)" again
Mutex_wake(i, c) ==
  /\ c \in inst[i].mutexWoken
  /\ Step(i, Run(Call([Cur(i) EXCEPT !.mutexWoken = @ \ {c}],
                      It("connectModbusClient", c[1], c[2], TRUE, 0))))
  /\ UNCHANGED <<activeConnections, instanceCount, device, platform>>

\* doConnect: its forceCloseConnection ended
doConnect_closed(i, graceful) ==
  /\ inst[i].connPc = "closing"
  /\ Step(i, [forceCloseConnection_end(Fault(Cur(i), graceful), graceful)
                EXCEPT !.connPc = "quiesce"])
  /\ UNCHANGED <<activeConnections, instanceCount, device, platform>>

\* doConnect: sleep(1000) ended; fresh client, connectTCP started
doConnect_quiesced(i) ==
  /\ inst[i].connPc = "quiesce"
  /\ inst[i].sinceAttempt >= QuiesceMs
  /\ FreeHandle(Cur(i)) # 0
  /\ Step(i, [Cur(i) EXCEPT !.connectionId = FreeHandle(Cur(i)),
                            !.client = FreeHandle(Cur(i)),
                            !.handle[FreeHandle(Cur(i))] = "new",
                            !.connHandle = FreeHandle(Cur(i)),
                            !.connPc = "tcp"])
  /\ UNCHANGED <<activeConnections, instanceCount, device, platform>>

\* doConnect: connectTCP resolved (ok), or it was rejected or timed out
doConnect_tcp(i, ok) ==
  /\ inst[i].connPc = "tcp"
  /\ inst[i].handle[inst[i].connHandle] = "new"
  /\ Step(i, Run(IF ok
                 THEN doConnect_resolved(
                        [Cur(i) EXCEPT !.handle[inst[i].connHandle] = "open"])
                 ELSE doConnect_failed(
                        [Fault(Cur(i), FALSE) EXCEPT
                           !.handle[inst[i].connHandle] = "failed"])))
  /\ UNCHANGED <<activeConnections, instanceCount, device, platform>>

\* doConnect: connectTCP was rejected because its client was closed meanwhile
doConnect_aborted(i) ==
  /\ inst[i].connPc = "tcp"
  /\ inst[i].handle[inst[i].connHandle] # "new"
  /\ Step(i, Run(doConnect_failed(Cur(i))))
  /\ UNCHANGED <<activeConnections, instanceCount, device, platform>>

\* the reconnect timer fires
Reconnect_fire(i) ==
  /\ inst[i].reconnectTimeout /\ ~inst[i].timerCallback
  /\ Step(i, IF inst[i].isCleaningUp
             THEN [Cur(i) EXCEPT !.reconnectTimeout = FALSE]
             ELSE Run(Call([Cur(i) EXCEPT !.reconnectTimeout = FALSE,
                                          !.timerCallback = TRUE],
                           It("connectModbusClient", "timer", 0, TRUE, 0))))
  /\ UNCHANGED <<activeConnections, instanceCount, device, platform>>

\* an operation enters the queue: executeWithRetry -> addToQueue(closure,
\* priority) (not taken when n operations are alive)
Admit(i, kind, arg, priority, n) ==
  /\ inst[i].constructed
  /\ FreeOpOf(Cur(i), n) # 0
  /\ Step(i, Run(addToQueue([Cur(i) EXCEPT
                               !.ops[FreeOpOf(Cur(i), n)] = NewOp(kind, arg)],
                            FreeOpOf(Cur(i), n), priority)))
  /\ UNCHANGED <<activeConnections, instanceCount, device, platform>>

\* a characteristic handler is invoked: handleOnGetOn, handleOnSetOn(x),
\* handleOnGetSpeed, handleOnSetSpeed(v) -> executeCharacteristicOperation ->
\* executeWithRetry -> addToQueue(closure)
Invoke(i, kind, arg, n) == Admit(i, kind, arg, FALSE, n)

\* executeCharacteristicOperation: the operation timeout wins the race
Call_timeout(i, o) ==
  /\ inst[i].ops[o].timer /\ inst[i].ops[o].cb = "none"
  /\ Step(i, [Cur(i) EXCEPT !.ops[o].timer = FALSE,
                            !.ops[o].cb = "timeout",
                            !.ops[o].cbCount = @ + 1])
  /\ UNCHANGED <<activeConnections, instanceCount, device, platform>>

\* processQueue: the throttle sleep is over, the operation is started
Queue_run(i, o) ==
  /\ inst[i].ops[o].pc = "throttle"
  /\ inst[i].ops[o].wait = 0
  /\ Step(i, Run(executeWithRetry(Cur(i), o)))
  /\ UNCHANGED <<activeConnections, instanceCount, device, platform>>

\* executeWithRetry: the wait loop ends (isConnecting false, or 50 polls)
Retry_poll(i, o) ==
  /\ inst[i].ops[o].pc = "poll"
  /\ Step(i, Run(Call(Cur(i), It("run", "op", o, TRUE, 0))))
  /\ UNCHANGED <<activeConnections, instanceCount, device, platform>>

\* a handler's closure: the promise of batchReadRegister settled.  (Part of
\* no specification: the read a closure awaits waits in the queue behind the
\* closure's own operation, or was dropped from it, and never settles.)
Read_resume(i, o) ==
  /\ inst[i].ops[o].pc = "awaitRead"
  /\ inst[i].ops[inst[i].ops[o].await].result # "none"
  /\ Step(i, Run(IF inst[i].ops[inst[i].ops[o].await].result = "err"
                 THEN Call(Cur(i), It("fail", "op", o, FALSE, 0))
                 ELSE IF inst[i].ops[o].kind = "setSpeed"
                 THEN SetSpeedAfterState(
                        Cur(i), o, inst[i].ops[inst[i].ops[o].await].value)
                 ELSE Call(Cur(i),
                           It("settle", "op", o, TRUE,
                              GetResult(inst[i].ops[o].kind,
                                        inst[i].ops[inst[i].ops[o].await].value)))))
  /\ UNCHANGED <<activeConnections, instanceCount, device, platform>>

\* the closure of operation o after its device request was answered with v
AfterResponse(s, o, v) ==
  CASE s.ops[o].kind = "read" -> Call(s, It("settle", "op", o, TRUE, v))
    [] s.ops[o].kind = "setOn" ->
         Call(cacheDelete(s, RegimeRegister), It("settle", "op", o, TRUE, 0))
    [] s.ops[o].kind = "setSpeed" /\ s.ops[o].stage = "regime" ->
         \* await this.sleep(800)
         [s EXCEPT !.ops[o].pc = "sleep", !.ops[o].slept = 0]
    [] OTHER ->  \* setSpeed: the speed was written
         Call(cacheDelete(cacheDelete(Lose(s, RegimeRegister), RegimeRegister),
                          SpeedRegister),
              It("settle", "op", o, TRUE, 0))

\* the request rq ended in the error e: readHoldingRegisters / writeRegister
\* rejects, the closure throws
RequestFailed(s, rq, e) ==
  Call([s EXCEPT !.requests = @ \ {rq}, !.ops[rq.op].fails = @ + 1,
                 !.ops[rq.op].err = e],
       It("fail", "op", rq.op, FALSE, 0))

\* the device answers a request (out = "ok"), or the request ends in an
\* error: the Modbus exception 6 'device busy' ("busy"), or a transport
\* error or timeout ("io")
Device_respond(i, rq, out) ==
  /\ rq \in inst[i].requests
  /\ inst[i].handle[rq.handle] = "open"
  /\ Step(i, Run(IF out = "ok"
                 THEN AfterResponse([Cur(i) EXCEPT !.requests = @ \ {rq}],
                                    rq.op,
                                    device[inst[i].connectionKey][rq.reg])
                 ELSE RequestFailed(Fault(Cur(i), FALSE), rq, out)))
  /\ device' = IF out = "ok" /\ rq.write
               THEN [device EXCEPT ![inst[i].connectionKey][rq.reg] = rq.val]
               ELSE device
  /\ UNCHANGED <<activeConnections, instanceCount, platform>>

\* a request on a client that was closed meanwhile ends in an error
Request_aborted(i, rq) ==
  /\ rq \in inst[i].requests
  /\ inst[i].handle[rq.handle] # "open"
  /\ Step(i, Run(RequestFailed(Cur(i), rq, "io")))
  /\ UNCHANGED <<activeConnections, instanceCount, device, platform>>

\* handleOnSetSpeed: sleep(800) ended, the speed is written
SetSpeed_wake(i, o) ==
  /\ inst[i].ops[o].pc = "sleep"
  /\ inst[i].ops[o].slept >= AutoOnWaitMs
  /\ Step(i, Run(IF inst[i].client = 0
                 THEN Call(Cur(i), It("fail", "op", o, FALSE, 0))
                 ELSE Issue(Cur(i), o, TRUE, SpeedRegister,
                            inst[i].ops[o].arg, "speed")))
  /\ UNCHANGED <<activeConnections, instanceCount, device, platform>>

\* the heartbeat timer fires
Heartbeat_fire(i) ==
  /\ inst[i].heartbeatTimeout
  /\ inst[i].heartbeatAge >= HeartbeatDue
  /\ Step(i, Run(performHealthCheck(
                   [Cur(i) EXCEPT !.heartbeatTimeout = FALSE,
                                  !.heartbeatAge = 0,
                                  !.heartbeatTimers = @ - 1])))
  /\ UNCHANGED <<activeConnections, instanceCount, device, platform>>

RemoveAt(q, n) == [j \in 1..(Len(q) - 1) |-> IF j < n THEN q[j] ELSE q[j + 1]]

\* performHealthCheck: the read it awaits settled
Heartbeat_settled(i, n) ==
  /\ n \in DOMAIN inst[i].probes
  /\ inst[i].ops[inst[i].probes[n]].result # "none"
  /\ Step(i, IF inst[i].ops[inst[i].probes[n]].result = "ok"
             THEN heartbeat_ok(updateConnectionHealth(
                    [Cur(i) EXCEPT !.probes = RemoveAt(@, n),
                                   !.probeAge = RemoveAt(@, n)], TRUE))
             ELSE handleConnectionFailure(updateConnectionHealth(
                    [Cur(i) EXCEPT !.probes = RemoveAt(@, n),
                                   !.probeAge = RemoveAt(@, n)], FALSE)))
  /\ UNCHANGED <<activeConnections, instanceCount, device, platform>>

\* performHealthCheck: 'Heartbeat timeout' (5 s) wins the race
HeartbeatTimedOut(s, n) ==
  handleConnectionFailure(updateConnectionHealth(
    [s EXCEPT !.probes = RemoveAt(@, n), !.probeAge = RemoveAt(@, n)], FALSE))

\* the read is not settled after 5 s because the device has not answered a
\* request for that long
Heartbeat_timeout(i, n) ==
  /\ n \in DOMAIN inst[i].probes
  /\ inst[i].ops[inst[i].probes[n]].result = "none"
  /\ inst[i].probeAge[n] >= HeartbeatTimeoutMs
  /\ inst[i].requests # {}
  /\ Step(i, HeartbeatTimedOut(Fault(Cur(i), FALSE), n))
  /\ UNCHANGED <<activeConnections, instanceCount, device, platform>>

\* the read is not settled after 5 s although no request is in flight: the
\* queue has not come to it
Heartbeat_stalled(i, n) ==
  /\ n \in DOMAIN inst[i].probes
  /\ inst[i].ops[inst[i].probes[n]].result = "none"
  /\ inst[i].probeAge[n] >= HeartbeatTimeoutMs
  /\ inst[i].requests = {}
  /\ Step(i, HeartbeatTimedOut(Cur(i), n))
  /\ UNCHANGED <<activeConnections, instanceCount, device, platform>>

\* new HRUPlatform(log, config, api)
Platform_construct ==
  /\ ~platform.built
  /\ platform' = HRUPlatform(platform)
  /\ UNCHANGED <<inst, activeConnections, instanceCount, device>>

\* configureAccessory: homebridge restores the accessory from its cache
Platform_configureAccessory ==
  /\ platform.built /\ platform.accessories = 0
  /\ platform.hruAccessories = 0
  /\ platform' = [platform EXCEPT !.accessories = 1]
  /\ UNCHANGED <<inst, activeConnections, instanceCount, device>>

\* discoverDevices(): called by the didFinishLaunching handler (byEvent; the
\* handler exists once setupEventHandlers ran) or directly
Platform_discoverDevices(byEvent) ==
  /\ platform.built
  /\ byEvent => platform.handlers
  /\ CanDiscover(platform)
  /\ Construct(1, TheEndpoint)
  /\ platform' = discoverDevices(platform)

\* the health check runs: the interval set by scheduleHealthCheck fires, or
\* forceHealthCheck() is called
Platform_healthCheck(forced, healthy) ==
  /\ platform.built /\ ~platform.shutdownInitiated
  /\ forced \/ platform.healthCheckInterval
  /\ healthy => inst[1].isConnected /\ ~inst[1].isCleaningUp
  /\ platform' = performHealthCheck_platform(platform, healthy)
  /\ UNCHANGED <<inst, activeConnections, instanceCount, device>>

\* a shutdown trigger (the 'shutdown' event, SIGTERM, SIGINT or an uncaught
\* exception; each handler calls initiateShutdown): initiateShutdown, and
\* performCleanup up to its first await (disconnect() of every accessory)
Platform_shutdown ==
  /\ platform.built /\ platform.handlers
  /\ platform.shutdownCalls < MaxShutdowns
  /\ platform' = initiateShutdown(platform)
  /\ inst' = [i \in Inst |->
                IF /\ i = 1 /\ platform.hruAccessories > 0
                   /\ initiateShutdown(platform).cleanupRuns
                        # platform.cleanupRuns
                THEN cleanup(Cur(i)) ELSE inst[i]]
  /\ UNCHANGED <<activeConnections, instanceCount, device>>

\* forceReconnectAll() up to its await: disconnect() of every accessory
Platform_forceReconnectAll ==
  /\ platform.built /\ ~platform.shutdownInitiated
  /\ platform.reconnectPc = "idle"
  /\ platform.hruAccessories > 0
  /\ platform' = [platform EXCEPT !.reconnectPc = "devices"]
  /\ inst' = [i \in Inst |-> IF i = 1 THEN cleanup(Cur(i)) ELSE inst[i]]
  /\ UNCHANGED <<activeConnections, instanceCount, device>>

\* forceReconnectAll: every disconnect() promise resolved, it completes
Platform_reconnected ==
  /\ platform.reconnectPc = "devices"
  /\ inst[1].cleanPc = "done"
  /\ platform' = [platform EXCEPT !.reconnectPc = "done"]
  /\ UNCHANGED <<inst, activeConnections, instanceCount, device>>

\* performCleanup: the device cleanups ended (or 12 s passed);
\* cleanupAllInstances, then hruAccessories is emptied
Platform_cleaned ==
  /\ platform.cleanupPc = "devices"
  /\ platform' = [platform EXCEPT !.cleanupPc = "done", !.hruAccessories = 0]
  /\ inst' = [i \in Inst |->
                IF \E k \in Endpoints : activeConnections[k] = i
                THEN cleanup(Cur(i)) ELSE inst[i]]
  /\ UNCHANGED <<activeConnections, instanceCount, device>>

\* ---------------------------------------------------------- specifications
\* a connect attempt of instance i goes on
ConnectStep(i) ==
  \/ doConnect_quiesced(i)
  \/ doConnect_tcp(i, TRUE)

\* the teardown of instance i goes on
CleanupStep(i) ==
  \/ Cleanup_unregister(i)
  \/ Cleanup_closed(i, TRUE)

\* the queue, the device's answers and the heartbeat
OperationStep(i) ==
  \/ \E o \in OpIds : Call_timeout(i, o)
  \/ \E o \in OpIds : Queue_run(i, o)
  \/ \E o \in OpIds : Retry_poll(i, o)
  \/ \E rq \in inst[i].requests : Device_respond(i, rq, "ok")
  \/ \E o \in OpIds : SetSpeed_wake(i, o)
  \/ Heartbeat_fire(i)
  \/ \E n \in OpIds : Heartbeat_settled(i, n)
  \/ \E n \in OpIds : Heartbeat_stalled(i, n)

\* what follows a failure: the reconnect timer, the close of the client that
\* failed
RecoveryStep(i) ==
  \/ Reconnect_fire(i)
  \/ doConnect_closed(i, TRUE)

\* the network fails: connectTCP is refused or times out, a graceful close
\* times out
NetworkFault(i) ==
  \/ doConnect_tcp(i, FALSE)
  \/ doConnect_closed(i, FALSE)

\* the device fails: a request ends in an error, or is not answered while
\* a heartbeat probe runs out of time
DeviceFault(i) ==
  \/ \E rq \in inst[i].requests, e \in {"busy", "io"} :
       Device_respond(i, rq, e)
  \/ \E n \in OpIds : Heartbeat_timeout(i, n)

\* one instance on a reliable network and device: handlers, heartbeat, cleanup
Next ==
  \/ Construct(1, TheEndpoint) /\ UNCHANGED platform
  \/ Disconnect(1)
  \/ \E d \in TickSteps : Tick(d)
  \/ ConnectStep(1)
  \/ doConnect_aborted(1)
  \/ Cleanup_opsDone(1)
  \/ CleanupStep(1)
  \/ \E c \in Calls : Invoke(1, c[1], c[2], MaxOps)
  \/ OperationStep(1)
  \/ \E rq \in inst[1].requests : Request_aborted(1, rq)

Spec == Init /\ [][Next]_vars

\* one instance, never torn down, whose network and device fail, with the
\* handlers that write
NextFaults ==
  \/ Construct(1, TheEndpoint) /\ UNCHANGED platform
  \/ \E d \in TickSteps : Tick(d)
  \/ ConnectStep(1)
  \/ Invoke(1, "setOn", 1, MaxOps)
  \/ Invoke(1, "setSpeed", 50, MaxOps)
  \/ OperationStep(1)
  \/ RecoveryStep(1)
  \/ \E c \in inst[1].mutexWoken : Mutex_wake(1, c)
  \/ NetworkFault(1)
  \/ DeviceFault(1)
  \/ \E rq \in inst[1].requests : Request_aborted(1, rq)

SpecFaults == Init /\ [][NextFaults]_vars

\* several instances constructed for one endpoint and torn down; no handler
\* is invoked
NextRegistry ==
  \/ \E i \in Inst : Construct(i, TheEndpoint) /\ UNCHANGED platform
  \/ \E i \in Inst : Disconnect(i)
  \/ \E d \in TickSteps : Tick(d)
  \/ \E i \in Inst : ConnectStep(i)
  \/ \E i \in Inst : doConnect_aborted(i)
  \/ \E i \in Inst : CleanupStep(i)

SpecRegistry == Init /\ [][NextRegistry]_vars

\* constructions for one endpoint, individual cleanups and one call of
\* cleanupAllInstances(), while no instance has opened a client yet
NextSweep ==
  \/ \E i \in Inst : Construct(i, TheEndpoint) /\ UNCHANGED platform
  \/ \E i \in Inst : Disconnect(i)
  \/ \E i \in Inst : Cleanup_unregister(i)
  \/ CleanupAll_begin
  \/ CleanupAll_resolved

SpecSweep == Init /\ [][NextSweep]_vars

\* one instance whose callers keep invoking handleOnSetOn while the connection
\* is being established and afterwards
NextOutage ==
  \/ Construct(1, TheEndpoint) /\ UNCHANGED platform
  \/ \E d \in TickSteps : Tick(d)
  \/ doConnect_quiesced(1)
  \/ doConnect_tcp(1, TRUE)
  \/ \E x \in {0, 1} : Invoke(1, "setOn", x, MaxConcurrentOperations + 1)
  \/ \E o \in OpIds : Call_timeout(1, o)
  \/ \E o \in OpIds : Queue_run(1, o)
  \/ \E o \in OpIds : Retry_poll(1, o)
  \/ \E rq \in inst[1].requests : Device_respond(1, rq, "ok")

SpecOutage == Init /\ [][NextOutage]_vars

\* one instance, its clocks followed in steps of one second, whose callers
\* invoke handleOnSetOn one call at a time and whose requests may fail
NextRetry ==
  \/ Construct(1, TheEndpoint) /\ UNCHANGED platform
  \/ Tick(QuiesceMs)
  \/ ConnectStep(1)
  \/ \E x \in {0, 1} : Invoke(1, "setOn", x, 1)
  \/ \E o \in OpIds : Queue_run(1, o)
  \/ \E o \in OpIds : Retry_poll(1, o)
  \/ \E rq \in inst[1].requests, out \in {"ok", "io"} :
       Device_respond(1, rq, out)
  \/ RecoveryStep(1)

SpecRetry == Init /\ [][NextRetry]_vars

\* one instance, its clocks followed in steps of one second, whose network
\* and device may fail twice, so that the reconnect timer and an operation
\* call connectModbusClient while an attempt is in flight
InitJoin ==
  /\ inst = [i \in Inst |-> [Fresh("", FALSE) EXCEPT !.budget = MaxJoinFaults]]
  /\ activeConnections = [k \in Endpoints |-> 0]
  /\ instanceCount = 0
  /\ platform = NoPlatform(DefaultConfig)
  /\ device = [k \in Endpoints |-> [r \in Registers |-> 0]]

NextJoin ==
  \/ Construct(1, TheEndpoint) /\ UNCHANGED platform
  \/ Tick(QuiesceMs)
  \/ ConnectStep(1)
  \/ Invoke(1, "setOn", 1, 1)
  \/ \E o \in OpIds : Queue_run(1, o)
  \/ \E o \in OpIds : Retry_poll(1, o)
  \/ \E rq \in inst[1].requests, out \in {"ok", "io"} :
       Device_respond(1, rq, out)
  \/ RecoveryStep(1)
  \/ NetworkFault(1)
  \/ \E c \in inst[1].mutexWoken : Mutex_wake(1, c)

SpecJoin == InitJoin /\ [][NextJoin]_vars

\* one instance whose request fails, so that it reconnects with a transport
\* handle to close, and which is torn down meanwhile
NextSupersede ==
  \/ Construct(1, TheEndpoint) /\ UNCHANGED platform
  \/ Disconnect(1)
  \/ \E d \in TickSteps : Tick(d)
  \/ ConnectStep(1)
  \/ doConnect_aborted(1)
  \/ Invoke(1, "setOn", 1, 1)
  \/ \E o \in OpIds : Queue_run(1, o)
  \/ \E rq \in inst[1].requests, out \in {"ok", "io"} :
       Device_respond(1, rq, out)
  \/ \E rq \in inst[1].requests : Request_aborted(1, rq)
  \/ RecoveryStep(1)
  \/ Cleanup_opsDone(1)
  \/ CleanupStep(1)

SpecSupersede == Init /\ [][NextSupersede]_vars

\* one instance on a reliable network and device, its clocks followed in
\* steps of half the throttle, whose queue admits operations with and without
\* priority
NextQueue ==
  \/ Construct(1, TheEndpoint) /\ UNCHANGED platform
  \/ Tick(OperationThrottle \div 2)
  \/ ConnectStep(1)
  \/ \E x \in {0, 1}, priority \in BOOLEAN :
       Admit(1, "setOn", x, priority, MaxConcurrentOperations)
  \/ \E o \in OpIds : Queue_run(1, o)
  \/ \E o \in OpIds : Retry_poll(1, o)
  \/ \E rq \in inst[1].requests : Device_respond(1, rq, "ok")

SpecQueue == Init /\ [][NextQueue]_vars

\* one instance whose connectionHealth is followed, with handler calls and
\* heartbeat probes, whose device may fail
InitHealth ==
  /\ inst = [i \in Inst |-> [Fresh("", FALSE) EXCEPT !.healthBound = MaxHealthOps]]
  /\ activeConnections = [k \in Endpoints |-> 0]
  /\ instanceCount = 0
  /\ platform = NoPlatform(DefaultConfig)
  /\ device = [k \in Endpoints |-> [r \in Registers |-> 0]]

NextHealth ==
  \/ Construct(1, TheEndpoint) /\ UNCHANGED platform
  \/ Tick(QuiesceMs)
  \/ ConnectStep(1)
  \/ Invoke(1, "setOn", 1, 1)
  \/ \E o \in OpIds : Queue_run(1, o)
  \/ \E o \in OpIds : Retry_poll(1, o)
  \/ \E rq \in inst[1].requests, out \in {"ok", "io"} :
       Device_respond(1, rq, out)
  \/ RecoveryStep(1)
  \/ Heartbeat_fire(1)
  \/ \E n \in OpIds : Heartbeat_settled(1, n)
  \/ \E n \in OpIds : Heartbeat_timeout(1, n)
  \/ \E n \in OpIds : Heartbeat_stalled(1, n)

SpecHealth == InitHealth /\ [][NextHealth]_vars

\* one instance whose network fails up to maxRetries times, with the
\* reconnect timer and a handler that connects on demand
InitReconnect ==
  /\ inst = [i \in Inst |-> [Fresh("", FALSE) EXCEPT !.budget = MaxRetries]]
  /\ activeConnections = [k \in Endpoints |-> 0]
  /\ instanceCount = 0
  /\ platform = NoPlatform(DefaultConfig)
  /\ device = [k \in Endpoints |-> [r \in Registers |-> 0]]

NextReconnect ==
  \/ Construct(1, TheEndpoint) /\ UNCHANGED platform
  \/ \E d \in TickSteps : Tick(d)
  \/ ConnectStep(1)
  \/ NetworkFault(1)
  \/ RecoveryStep(1)
  \/ \E c \in inst[1].mutexWoken : Mutex_wake(1, c)
  \/ Invoke(1, "setOn", 1, 1)
  \/ \E o \in OpIds : Queue_run(1, o)
  \/ \E o \in OpIds : Retry_poll(1, o)
  \/ \E rq \in inst[1].requests, out \in {"ok", "io"} :
       Device_respond(1, rq, out)

SpecReconnect == InitReconnect /\ [][NextReconnect]_vars

\* the platform, from any configuration, and the accessory it creates
InitPlatform ==
  /\ inst = [i \in Inst |-> Fresh("", FALSE)]
  /\ activeConnections = [k \in Endpoints |-> 0]
  /\ instanceCount = 0
  /\ device = [k \in Endpoints |-> [r \in Registers |-> 0]]
  /\ \E c \in Configs : platform = NoPlatform(c)

NextPlatform ==
  \/ Platform_construct
  \/ Platform_configureAccessory
  \/ \E byEvent \in BOOLEAN : Platform_discoverDevices(byEvent)
  \/ \E forced, healthy \in BOOLEAN : Platform_healthCheck(forced, healthy)
  \/ Platform_shutdown
  \/ Platform_cleaned
  \/ Platform_forceReconnectAll
  \/ Platform_reconnected
  \/ \E d \in TickSteps : Tick(d)
  \/ ConnectStep(1)
  \/ doConnect_aborted(1)
  \/ CleanupStep(1)

SpecPlatform == InitPlatform /\ [][NextPlatform]_vars

\* ================================================================== claims
\* C1: when a second instance is constructed for an endpoint that has a
\* registered instance, then, once the teardown of the first instance has run
\* to completion, activeConnections still maps the endpoint to the second
\* instance (as long as the second is itself neither replaced nor torn down).
C1_RegistryKeepsSecond ==
  \A i, j \in Inst :
    /\ inst[i].replacedBy = j /\ inst[i].cleanPc = "done"
    /\ inst[j].replacedBy = 0 /\ ~inst[j].isCleaningUp
    => activeConnections[inst[j].connectionKey] = j

\* C2: after any sequence of constructions for the same endpoint, at most one
\* instance for that endpoint is not in cleanup.
C2_AtMostOneLive ==
  \A k \in Endpoints :
    Cardinality({i \in Inst : /\ inst[i].constructed
                              /\ inst[i].connectionKey = k
                              /\ ~inst[i].isCleaningUp}) <= 1

\* C3: once the cleanup of an instance has completed, the instance holds no
\* open transport handle and is not connected.
C3_NoConnectionAfterCleanup ==
  \A i \in Inst :
    inst[i].cleanPc = "done"
    => /\ ~inst[i].isConnected
       /\ \A h \in Handles : inst[i].handle[h] # "open"

\* C4: at no time are two device requests (readHoldingRegisters /
\* writeRegister) of the same instance outstanding.
C4_OneRequestAtATime ==
  \A i \in Inst : Cardinality(inst[i].requests) <= 1

\* a retried request is outstanding while another operation waits in the queue
C4_Witness ==
  \E rq \in inst[1].requests :
    /\ inst[1].ops[rq.op].attempt = 2
    /\ inst[1].operationQueue # <<>>

\* C5: every invocation of a characteristic handler eventually invokes its
\* callback exactly once.  In particular no callback is invoked twice, and no
\* invocation is left without its callback invoked once nothing can invoke it
\* any more: its operation removed from the queue (so that its promise never
\* settles) and its operation timeout cancelled.
C5_CallbackOnce ==
  \A i \in Inst, o \in OpIds :
    inst[i].ops[o].kind \in {"getOn", "setOn", "getSpeed", "setSpeed"}
    => /\ inst[i].ops[o].cbCount <= 1
       /\ inst[i].ops[o].cb = "none"
          => inst[i].ops[o].timer \/ inst[i].ops[o].pc # "dropped"

\* C6: on a connected instance that is not cleaning up, a handleOnGetOn /
\* handleOnGetSpeed call for a register without a valid cache entry issues a
\* device read, receives its value and lets the queue return to idle.  Hence
\* the read it awaits is never waiting in operationQueue behind the very
\* operation that awaits it (a state no step of the two can leave).
C6_GetIssuesItsRead ==
  \A i \in Inst, o \in OpIds :
    /\ inst[i].isConnected /\ ~inst[i].isCleaningUp
    /\ inst[i].ops[o].kind \in {"getOn", "getSpeed"}
    /\ inst[i].ops[o].pc = "awaitRead" /\ ~inst[i].ops[o].joined
    => inst[i].ops[inst[i].ops[o].await].pc # "queued"

\* C7 (as stated): after a device read of register R has stored v in the
\* cache, every read of R requested within the ttl, with no intervening write
\* to R, reconnect or connection failure, returns exactly v and issues no
\* device request.
C7_CachedReadAsStated ==
  \A i \in Inst, r \in Registers :
    inst[i].stored[r].valid
    => LET s == batchReadRegister(inst[i],
                                  It("batchReadRegister", "op", 0, TRUE, r))
       IN /\ s.ret.out = "hit" /\ s.ret.v = inst[i].stored[r].value
          /\ s.requests = inst[i].requests
          /\ s.operationQueue = inst[i].operationQueue

\* C7 (amended): ... with no intervening write to R, completed
\* handleOnSetSpeed call, cleanup, reconnect or connection failure, returns
\* exactly v and issues no device request.
C7_CachedRead ==
  \A i \in Inst, r \in Registers :
    inst[i].stored[r].valid /\ ~inst[i].stored[r].lost
    => LET s == batchReadRegister(inst[i],
                                  It("batchReadRegister", "op", 0, TRUE, r))
       IN /\ s.ret.out = "hit" /\ s.ret.v = inst[i].stored[r].value
          /\ s.requests = inst[i].requests
          /\ s.operationQueue = inst[i].operationQueue

\* handleOnGetOn was answered from the cache at the last moment of the ttl
C7_Witness ==
  \E o \in OpIds :
    /\ inst[1].ops[o].kind = "getOn" /\ inst[1].ops[o].cb = "value"
    /\ inst[1].stored[RegimeRegister].valid
    /\ ~inst[1].stored[RegimeRegister].lost
    /\ inst[1].stored[RegimeRegister].age = CacheTimeout
    /\ inst[1].ops[o].cbValue = RegimeToOn(inst[1].stored[RegimeRegister].value)

\* C8: when a write of handleOnSetOn or handleOnSetSpeed to a register R has
\* been answered by the device, the cache holds no entry for R.
C8_WriteInvalidates ==
  [][\A i \in Inst : \A rq \in inst[i].requests :
       /\ rq.write
       /\ rq \notin inst'[i].requests
       /\ inst'[i].ops[rq.op].fails = inst[i].ops[rq.op].fails
       /\ device'[inst[i].connectionKey][rq.reg] = rq.val
       /\ inst'[i].ops[rq.op].pc = "sleep" \/ inst'[i].ops[rq.op].result = "ok"
       => ~inst'[i].cache[rq.reg].present]_vars

\* C9: a caller of batchReadRegister that finds a read of the same register
\* in flight shares it: the one device request is issued and both callers
\* receive its value.  Hence the shared read is never waiting in
\* operationQueue behind the operation of the caller that awaits it.
C9_SingleFlight ==
  \A i \in Inst, o \in OpIds :
    /\ inst[i].ops[o].pc = "awaitRead" /\ inst[i].ops[o].joined
    /\ o \in inst[i].activeOperations
    => LET rd == inst[i].ops[o].await
       IN /\ inst[i].ops[rd].kind = "read"
          /\ \A n \in DOMAIN inst[i].operationQueue :
               inst[i].operationQueue[n] # rd

\* C10: handleOnSetSpeed(v) with v > 0 that read the regime 0 writes 2 to the
\* regime register, waits at least 800 ms, then writes v to the speed
\* register, in this order; with a non-zero regime, or v = 0, it writes only
\* the speed register.
C10_AutoOn ==
  \A i \in Inst, o \in OpIds :
    inst[i].ops[o].kind = "setSpeed"
    => LET op == inst[i].ops[o]
           w  == op.writes
       IN IF op.state = 0 /\ op.arg > 0
          THEN /\ Len(w) <= 2
               /\ Len(w) >= 1 => w[1] = <<RegimeRegister, OnSentinel>>
               /\ Len(w) = 2 => /\ w[2] = <<SpeedRegister, op.arg>>
                                /\ op.slept >= AutoOnWaitMs
               /\ op.result = "ok" => Len(w) = 2
          ELSE /\ Len(w) <= 1
               /\ Len(w) = 1 => w[1] = <<SpeedRegister, op.arg>>
               /\ op.result = "ok" => Len(w) = 1

\* a handleOnSetSpeed(v) call that switched the device on has ended
C10_Witness ==
  \E o \in OpIds :
    /\ inst[1].ops[o].kind = "setSpeed" /\ inst[1].ops[o].result = "ok"
    /\ Len(inst[1].ops[o].writes) = 2
    /\ device[inst[1].connectionKey][RegimeRegister] = OnSentinel
    /\ device[inst[1].connectionKey][SpeedRegister] = inst[1].ops[o].arg

\* C11: handleOnSetOn(x) writes 2 to the regime register when x >= 1 and 0
\* otherwise; handleOnGetOn returns 0 exactly when the raw register value is
\* 0 and 1 for every other raw value; for x in {0, 1} the value written for x
\* is read back as x.
C11_RegimeMapping ==
  /\ \A i \in Inst, o \in OpIds :
       /\ inst[i].ops[o].kind = "setOn" /\ inst[i].ops[o].writes # <<>>
          => /\ Len(inst[i].ops[o].writes) = 1
             /\ inst[i].ops[o].writes[1] =
                  <<RegimeRegister, IF inst[i].ops[o].arg >= 1 THEN 2 ELSE 0>>
       /\ inst[i].ops[o].kind = "getOn" /\ inst[i].ops[o].cb = "value"
          => /\ inst[i].cache[RegimeRegister].present
             /\ inst[i].ops[o].cbValue =
                  IF inst[i].cache[RegimeRegister].value = 0 THEN 0 ELSE 1
  /\ \A v \in 0..3 : RegimeToOn(v) = IF v = 0 THEN 0 ELSE 1
  /\ \A x \in {0, 1} : RegimeToOn(OnToRegime(x)) = x

\* handleOnGetOn returned 1 for the raw value 2, the value handleOnSetOn(1)
\* writes
C11_Witness ==
  \E o \in OpIds :
    /\ inst[1].ops[o].kind = "getOn" /\ inst[1].ops[o].cb = "value"
    /\ inst[1].ops[o].cbValue = 1
    /\ inst[1].cache[RegimeRegister].value = OnSentinel
    /\ device[inst[1].connectionKey][RegimeRegister] = OnSentinel

\* C12: when a device request on a connected instance fails with the Modbus
\* exception 6 'device busy', isConnected stays true, the transport handle
\* stays open, no reconnect is scheduled and the operation is not rejected.
C12_BusyKeepsConnection ==
  [][\A i \in Inst, o \in OpIds :
       /\ inst[i].isConnected /\ inst[i].client # 0
       /\ inst'[i].ops[o].fails = inst[i].ops[o].fails + 1
       /\ inst'[i].ops[o].err = "busy"
       => /\ inst'[i].isConnected
          /\ ~inst'[i].reconnectTimeout
          /\ inst'[i].client = inst[i].client
          /\ inst'[i].handle[inst[i].client] = "open"
          /\ inst'[i].ops[o].result # "err"]_vars

\* C13: a user operation whose device requests fail with a transport or
\* timeout error is rejected only after maxRetries requests have failed.
C13_RetriedMaxRetries ==
  \A i \in Inst, o \in OpIds :
    /\ inst[i].ops[o].kind \in {"getOn", "setOn", "getSpeed", "setSpeed"}
    /\ inst[i].ops[o].result = "err"
    /\ inst[i].ops[o].fails >= 1 /\ inst[i].ops[o].err = "io"
    => inst[i].ops[o].fails >= MaxRetries

\* C14: when the operation timeout of a handler invocation fires while its
\* device request is unanswered, the caller receives the timeout error and the
\* connection is marked broken.
C14_TimeoutBreaksConnection ==
  [][\A i \in Inst, o \in OpIds :
       /\ inst[i].ops[o].timer /\ inst[i].ops[o].cb = "none"
       /\ \E rq \in inst[i].requests : rq.op = o
       /\ inst'[i].ops[o].cb = "timeout"
       => ~inst'[i].isConnected]_vars

\* C15: the operations of an instance that addToQueue admitted and that have
\* not finished (waiting in operationQueue or executing) never number more
\* than maxConcurrentOperations.
C15_AdmissionBound ==
  \A i \in Inst :
    Cardinality({o \in OpIds :
                   inst[i].ops[o].pc \notin {"none", "done", "refused",
                                             "dropped"}})
      <= MaxConcurrentOperations

C17_NoTimerAfterCleanup ==
  [][\A i \in Inst :
       inst[i].isCleaningUp
       => /\ inst[i].connPc = "quiesce" => inst'[i].connPc = "quiesce"
          /\ \A o \in OpIds :
               /\ inst[i].ops[o].pc \in {"throttle", "poll", "sleep"}
                  => inst'[i].ops[o].pc = inst[i].ops[o].pc
               /\ inst[i].ops[o].cb = "none" => inst'[i].ops[o].cb # "timeout"
          /\ ~inst[i].heartbeatTimeout /\ ~inst[i].reconnectTimeout]_vars

\* C18: the delay of a scheduled reconnect, without jitter, is
\* min(5000 * 2^connectionRetryCount, 60000) ms; it does not decrease as the
\* retry count grows and never exceeds 60000 ms; the jitter lies in
\* [0, 1000) ms; and when an operation succeeds the retry count is 0, so the
\* next delay is the 5000 ms base.
C18_Backoff ==
  [][/\ \A i \in Inst :
          /\ inst'[i].reconnectTimeout
             => /\ inst'[i].delay =
                     IF 5000 * 2^inst'[i].delayCount < 60000
                     THEN 5000 * 2^inst'[i].delayCount ELSE 60000
                /\ inst'[i].delayCount \in 0..MaxRetries
          /\ \A o \in OpIds :
               inst[i].ops[o].result = "none" /\ inst'[i].ops[o].result = "ok"
               => /\ inst'[i].connectionRetryCount = 0
                  /\ ReconnectDelay(inst'[i].connectionRetryCount) = 5000
     /\ \A n \in 0..(MaxRetries + 2) :
          /\ ReconnectDelay(n) <= ReconnectDelay(n + 1)
          /\ ReconnectDelay(n) <= 60000
     /\ \A p \in 0..(RandomUnit - 1) : Jitter(p) >= 0 /\ Jitter(p) < 1000]_vars

\* a reconnect is scheduled after a failed connection attempt, with the
\* doubled delay
C18_Witness ==
  /\ inst[1].reconnectTimeout
  /\ inst[1].delayCount = 1 /\ inst[1].delay = 10000

\* C19: a configuration with a malformed ip, a port that is not an integer in
\* 1..65535, a register that is not an integer in 0..65535, equal regime and
\* speed registers or maxRetries < 1 has a validation error recorded; and a
\* platform with a validation error never has an HRUAccessory, a registered
\* platform accessory or a device connection, whatever lifecycle events
\* follow.
C19_InvalidConfigCreatesNothing ==
  LET c == platform.config
      badNumber(x, lo, hi) == x.def /\ ~(x.int /\ x.v >= lo /\ x.v <= hi)
      invalid ==
        \/ c.ip # <<>> /\ ~(Len(c.ip) = 4 /\ \A n \in 1..4 : c.ip[n] \in 0..255)
        \/ badNumber(c.port, 1, 65535)
        \/ badNumber(c.regimeRegister, 0, 65535)
        \/ badNumber(c.speedRegister, 0, 65535)
        \/ c.regimeRegister.def /\ c.speedRegister.def
             /\ c.regimeRegister = c.speedRegister
        \/ c.maxRetries.def /\ c.maxRetries.v < 1
  IN /\ platform.built /\ invalid => platform.configValidationErrors # {}
     /\ ~platform.built \/ platform.configValidationErrors # {}
        => /\ \A i \in Inst :
                /\ ~inst[i].constructed
                /\ \A h \in Handles : inst[i].handle[h] = "unused"
           /\ platform.hruAccessories = 0 /\ platform.registered = 0
           /\ instanceCount = 0
           /\ \A k \in Endpoints : activeConnections[k] = 0

\* a platform built from a configuration with a fractional port, after a
\* restored accessory was configured and a health check was forced
C19_Witness ==
  /\ platform.built /\ platform.config.port = Frac(502)
  /\ platform.config.ip = <<10, 0, 0, 5>>
  /\ platform.configValidationErrors = {"port"}
  /\ platform.accessories = 1 /\ platform.lastDiagnostics

\* C20: when a connect attempt ends, then on success (connectTCP resolved and
\* the attempt was not superseded) the instance is connected and no longer
\* connecting, the cache is empty, connectionRetryCount is 0 and no reconnect
\* timer is pending; on failure it is neither connected nor connecting,
\* connectionRetryCount has grown by exactly 1 (before a scheduleReconnect of
\* the caller resets a count that reached maxRetries) and the caller has the
\* error: an operation is rejected, initializeConnection and the reconnect
\* timer's callback schedule the next reconnect.
C20_ConnectOutcome ==
  [][\A i \in Inst :
       inst[i].connPc = "tcp" /\ inst'[i].connPc # "tcp"
       => IF /\ inst'[i].handle[inst[i].connHandle] = "open"
             /\ inst[i].connectionId = inst[i].connHandle
          THEN /\ inst'[i].isConnected /\ ~inst'[i].isConnecting
               /\ \A r \in Registers : ~inst'[i].cache[r].present
               /\ inst'[i].connectionRetryCount = 0
               /\ ~inst'[i].reconnectTimeout
          ELSE /\ ~inst'[i].isConnected /\ ~inst'[i].isConnecting
               /\ \/ inst'[i].connectionRetryCount
                       = inst[i].connectionRetryCount + 1
                  \/ /\ inst[i].connectionRetryCount + 1 >= MaxRetries
                     /\ inst[i].connCaller[1] # "op"
                     /\ inst'[i].connectionRetryCount = 0
               /\ IF inst[i].connCaller[1] = "op"
                  THEN inst'[i].ops[inst[i].connCaller[2]].result = "err"
                  ELSE inst'[i].reconnectTimeout]_vars

\* a connect attempt failed, the reconnect that was then scheduled succeeded
C20_Witness ==
  /\ inst[1].isConnected /\ ~inst[1].isConnecting
  /\ inst[1].connectionRetryCount = 0 /\ ~inst[1].reconnectTimeout
  /\ inst[1].delayCount = 1
  /\ inst[1].handle[inst[1].client] = "open"

\* C21: two starts of doConnect of an instance are at least 2000 ms apart; a
\* connectModbusClient call made while disconnected, less than 2000 ms after
\* the last attempt started, ends with an error and leaves the transport
\* handles, this.client, the attempt state and connectionRetryCount as they
\* are.
C21_AttemptGap ==
  \A i \in Inst :
    /\ inst[i].lastGap >= 2000
    /\ /\ ~inst[i].mutexLocked /\ ~inst[i].isCleaningUp
       /\ ~inst[i].isConnected \/ inst[i].isDisconnecting
       /\ inst[i].sinceAttempt < 2000
       => LET t == connectModbusClient(
                     inst[i], It("connectModbusClient", "timer", 0, TRUE, 0))
          IN /\ t.todo # <<>>
             /\ Head(t.todo).f = "return" /\ ~Head(t.todo).ok
             /\ t.handle = inst[i].handle /\ t.client = inst[i].client
             /\ t.connPc = inst[i].connPc
             /\ t.isConnecting = inst[i].isConnecting
             /\ t.sinceAttempt = inst[i].sinceAttempt
             /\ t.connectionRetryCount = inst[i].connectionRetryCount

\* an operation whose request failed one second after the connect attempt
\* started was refused its reconnect
C21_Witness ==
  \E o \in OpIds :
    /\ inst[1].ops[o].result = "err" /\ inst[1].ops[o].attempt = 2
    /\ inst[1].ops[o].fails = 1
    /\ ~inst[1].isConnected /\ inst[1].sinceAttempt < MinAttemptGap
    /\ inst[1].connPc = "idle" /\ inst[1].handle[inst[1].client] = "open"

\* C22: a caller of connectModbusClient that had to wait for an attempt in
\* flight has joined that attempt: when it goes on it starts no attempt of
\* its own (no second connectTCP).
C22_JoinAttempt ==
  [][\A i \in Inst : \A c \in inst[i].mutexWoken :
       c \notin inst'[i].mutexWoken /\ ~inst[i].mutexLocked
       => /\ inst'[i].connPc = "idle" /\ ~inst'[i].isConnecting
          /\ inst'[i].sinceAttempt = inst[i].sinceAttempt]_vars

\* C23: when an attempt's connectTCP resolves after connectionId has changed,
\* the instance does not become connected through it and the attempt ends
\* with an error (counted in connectionRetryCount).
C23_SupersededDiscarded ==
  [][\A i \in Inst :
       /\ inst[i].connPc = "tcp" /\ inst'[i].connPc # "tcp"
       /\ inst[i].connectionId # inst[i].connHandle
       => /\ ~inst'[i].isConnected /\ ~inst'[i].isConnecting
          /\ inst'[i].connectionRetryCount
               = inst[i].connectionRetryCount + 1]_vars

\* a connectTCP resolved on a handle whose attempt had been superseded: the
\* handle is open, the instance is not connected
C23_Witness ==
  \E h \in Handles :
    /\ inst[1].handle[h] = "open" /\ inst[1].client = 0
    /\ ~inst[1].isConnected /\ inst[1].connPc = "idle"
    /\ inst[1].connectionId = 0 /\ inst[1].connectionRetryCount >= 1

\* C24: a connect attempt closes the existing transport handle, waits at
\* least 1000 ms, creates a new handle and calls connectTCP on it: while
\* connectTCP is pending no other handle is open or new and at least 1000 ms
\* have passed since the attempt started; and no device request is issued on
\* a handle of an earlier attempt once a later attempt has started.
C24_FreshHandle ==
  [][\A i \in Inst :
       /\ inst'[i].connPc = "tcp"
          => /\ inst'[i].sinceAttempt >= 1000
             /\ inst'[i].client = inst'[i].connHandle
             /\ \A h \in Handles \ {inst'[i].connHandle} :
                  inst'[i].handle[h] \notin {"new", "open"}
       /\ inst'[i].connPc = "quiesce"
          => \A h \in Handles : inst'[i].handle[h] \notin {"new", "open"}
       /\ \A rq \in inst'[i].requests \ inst[i].requests :
            /\ inst'[i].connPc = "idle"
            /\ inst'[i].handle[rq.handle] = "open"]_vars

\* C25: the queued operations of an instance begin (leave operationQueue) in
\* the order of their admission, except that an operation admitted with
\* priority begins before every operation that waited in the queue when it
\* was admitted.  Whenever an operation o begins while an operation p keeps
\* waiting: if p was admitted before o, o was admitted with priority; if p
\* was admitted after o, p was admitted without.
C25_QueueOrder ==
  [][\A i \in Inst : \A o \in OpIds :
       /\ inst'[i].ops[o].pc \notin {"none", "queued", "refused", "dropped", "done"}
       /\ inst[i].ops[o].pc \in {"none", "queued", "refused", "dropped", "done"}
       => \A p \in OpIds \ {o} :
            /\ inst[i].ops[p].pc = "queued"
            /\ inst'[i].ops[p].pc = "queued"
            => IF inst[i].ops[o].pc # "queued" \/ p \in inst[i].ops[o].earlier
               THEN inst'[i].ops[o].priority
               ELSE ~inst[i].ops[p].priority]_vars

\* an operation admitted with priority has begun ahead of an operation that
\* was admitted before it and still waits, and an operation admitted without
\* priority waits behind it
C25_Witness ==
  \E o, p, q \in OpIds :
    /\ inst[1].ops[o].priority
    /\ inst[1].ops[o].pc \in {"throttle", "io"}
    /\ p \in inst[1].ops[o].earlier
    /\ ~inst[1].ops[p].priority
    /\ inst[1].operationQueue = <<p, q>>
    /\ q \notin inst[1].ops[o].earlier

\* C26: between the completion of one queued operation and the start of the
\* next queued operation of the same instance at least operationThrottle ms
\* elapse, whether the next operation waited in the queue or was admitted
\* after the queue had become empty.  Whenever an operation is started (its
\* closure is called, after the throttle sleep or at once on admission), the
\* time since the last completion is at least operationThrottle.
C26_Throttle ==
  [][\A i \in Inst : \A o \in OpIds :
       \/ /\ inst[i].ops[o].pc = "throttle"
          /\ inst'[i].ops[o].pc # "throttle"
       \/ /\ inst[i].ops[o].pc \in {"none", "done", "refused", "dropped"}
          /\ inst'[i].ops[o].pc \in {"preconnect", "poll", "io", "awaitRead",
                                     "sleep", "retryconnect"}
       => inst[i].sinceCompletion >= 1000]_vars

\* an operation admitted to the empty queue less than operationThrottle ms
\* after the last completion was taken by a new run of processQueue, which
\* sleeps for the rest of the throttle
C26_Witness ==
  \E o \in OpIds :
    /\ inst[1].ops[o].pc = "throttle"
    /\ inst[1].operationQueue = <<>>
    /\ inst[1].sinceCompletion > 0
    /\ inst[1].sinceCompletion < OperationThrottle
    /\ inst[1].ops[o].wait = OperationThrottle - inst[1].sinceCompletion

\* C27: once cleanup has started (isCleaningUp is true), no queued operation
\* begins execution on that instance, whatever the queue processor was doing
\* when cleanup started: no step starts an operation (ends its throttle
\* sleep by calling its closure) while isCleaningUp is true.
C27_NoStartAfterCleanup ==
  [][\A i \in Inst : \A o \in OpIds :
       /\ inst[i].isCleaningUp
       /\ inst[i].ops[o].pc = "throttle"
       => inst'[i].ops[o].pc = "throttle"]_vars

\* C28: the health statistics record every outcome exactly once and
\* truthfully.  Whenever a step ends exactly one queued operation (and no
\* heartbeat probe), totalOperations increases by exactly 1,
\* consecutiveFailures becomes 0 when the operation succeeded and increases
\* by 1 when it was rejected, and successRate is
\* (totalOperations - consecutiveFailures) / totalOperations * 100.
C28_HealthTruthful ==
  [][\A i \in Inst : \A o \in OpIds :
       /\ inst[i].totalOperations < inst[i].healthBound
       /\ Len(inst'[i].probes) >= Len(inst[i].probes)
       /\ inst[i].ops[o].pc \in {"throttle", "preconnect", "poll", "io",
                                 "awaitRead", "sleep", "retryconnect"}
       /\ inst'[i].ops[o].pc = "done"
       /\ \A p \in OpIds \ {o} :
            inst'[i].ops[p].pc = "done" => inst[i].ops[p].pc = "done"
       => /\ inst'[i].totalOperations = inst[i].totalOperations + 1
          /\ inst'[i].consecutiveFailures =
               IF inst'[i].ops[o].result = "ok" THEN 0
               ELSE inst[i].consecutiveFailures + 1
          /\ inst'[i].successRate[1] * inst'[i].totalOperations =
               (inst'[i].totalOperations - inst'[i].consecutiveFailures)
                 * inst'[i].successRate[2]]_vars

\* C29: at most one heartbeat timer is pending per instance at any time, and
\* two heartbeat probes of one instance never run at the same time; a probe
\* is started only when the instance is connected and neither connecting,
\* disconnecting nor cleaning up.
C29_OneHeartbeat ==
  /\ [](\A i \in Inst : /\ inst[i].heartbeatTimers <= 1
                        /\ Len(inst[i].probes) <= 1)
  /\ [][\A i \in Inst :
          Len(inst'[i].probes) > Len(inst[i].probes)
          => /\ inst[i].isConnected /\ ~inst[i].isConnecting
             /\ ~inst[i].isDisconnecting /\ ~inst[i].isCleaningUp]_vars

\* a heartbeat timer was created (by the reconnect timer's callback) while a
\* probe is running: the probe is the only one, the timer is the only one
C29_Witness ==
  /\ Len(inst[1].probes) = 1
  /\ inst[1].heartbeatTimers = 1 /\ inst[1].heartbeatTimeout
  /\ inst[1].isConnected

\* C30: the heartbeat never stops silently: whenever the instance is
\* connected and not cleaning up, a heartbeat timer is pending or a probe is
\* running.  (Read here in the claim's favour: a state also passes when
\* something is under way that may still start the heartbeat, i.e. a
\* reconnect timer is pending, its callback or a connect attempt is in
\* flight, or a caller waits for the connection mutex.)
C30_HeartbeatAlive ==
  \A i \in Inst :
    /\ inst[i].isConnected /\ ~inst[i].isCleaningUp
    /\ ~inst[i].reconnectTimeout /\ ~inst[i].timerCallback
    /\ ~inst[i].isConnecting /\ inst[i].connPc = "idle"
    /\ ~inst[i].mutexLocked
    /\ inst[i].mutexWait = <<>> /\ inst[i].mutexWoken = {}
    => inst[i].heartbeatTimeout \/ inst[i].probes # <<>>

\* C31: reconnection never gives up.  Whenever the instance is disconnected
\* and not cleaning up, a connect attempt is in progress (isConnecting, or
\* the reconnect timer's callback waits for the connection mutex to make
\* one) or a reconnect timer is pending; and a scheduleReconnect that finds
\* connectionRetryCount at maxRetries or more resets it to 0 and leaves a
\* reconnect timer pending.
C31_NeverGivesUp ==
  /\ [](\A i \in Inst :
          inst[i].constructed /\ ~inst[i].isConnected /\ ~inst[i].isCleaningUp
          => \/ inst[i].isConnecting
             \/ inst[i].reconnectTimeout
             \/ inst[i].timerCallback)
  /\ [][\A i \in Inst :
          /\ inst'[i].delayCount >= MaxRetries
          /\ inst'[i].delayCount # inst[i].delayCount
          => /\ inst'[i].connectionRetryCount = 0
             /\ inst'[i].reconnectTimeout]_vars

\* maxRetries connect attempts in a row have failed: the count is back at 0
\* and the next attempt is scheduled
C31_Witness ==
  /\ inst[1].constructed /\ ~inst[1].isConnected /\ ~inst[1].isConnecting
  /\ inst[1].faults = MaxRetries
  /\ inst[1].delayCount = MaxRetries
  /\ inst[1].connectionRetryCount = 0
  /\ inst[1].reconnectTimeout

\* C32: a cache entry is valid only while its age is less than its ttl: a
\* lookup (getCachedValue, as batchReadRegister makes it) of an entry whose
\* age is greater than or equal to its ttl returns nothing and removes the
\* entry.
C32_ValidBelowTtl ==
  \A i \in Inst, r \in Registers :
    inst[i].cache[r].present /\ inst[i].cache[r].age >= inst[i].cache[r].ttl
    => /\ ~getCachedValue(inst[i], r).cache[r].present
       /\ batchReadRegister(inst[i],
                            It("batchReadRegister", "op", 0, TRUE, r)).ret.out
            # "hit"

\* C33: values from a previous connection session never appear in the cache
\* of a later session.  When a connect succeeds the cache is empty and the
\* pending-read table holds no read made before; and the answer to a read
\* request that was issued before a connection failure or a reconnect (the
\* instance is no longer connected, or this.client is no longer the handle
\* the request was issued on) is not stored in the cache.
C33_NoStaleValue ==
  [][\A i \in Inst :
       /\ ~inst[i].isConnected /\ inst'[i].isConnected
          => \A r \in Registers :
               /\ ~inst'[i].cache[r].present
               /\ inst'[i].pendingReads[r] # 0
                  => inst[i].ops[inst'[i].pendingReads[r]].pc
                       \in {"none", "done", "refused", "dropped"}
       /\ \A rq \in inst[i].requests \ inst'[i].requests :
            /\ ~rq.write
            /\ ~inst[i].isConnected \/ rq.handle # inst[i].client
            => \/ ~inst'[i].cache[rq.reg].present
               \/ inst'[i].cache[rq.reg] = inst[i].cache[rq.reg]]_vars

(* C34: the connection is in exactly one of the states Disconnected,       *)
(* Connecting, Connected, Disconnecting: in every state in which another  *)
(* task can run, at most one of the flags isConnected, isConnecting and   *)
(* isDisconnecting of an instance is true.                                *)
C34_OneConnectionState ==
  \A i \in Inst :
    /\ ~(inst[i].isConnected /\ inst[i].isConnecting)
    /\ ~(inst[i].isConnected /\ inst[i].isDisconnecting)
    /\ ~(inst[i].isConnecting /\ inst[i].isDisconnecting)

(* C35: whenever configuration validation passes, the registers the        *)
(* platform uses are distinct, and every register given in the            *)
(* configuration (an integer 0..65535, 0 included) is used unchanged,     *)
(* whichever of the two register settings are given or omitted.           *)
C35_EffectiveRegisters ==
  platform.built /\ platform.configValidationErrors = {}
  => /\ platform.regimeRegister # platform.speedRegister
     /\ platform.config.regimeRegister.def
          => platform.regimeRegister = platform.config.regimeRegister
     /\ platform.config.speedRegister.def
          => platform.speedRegister = platform.config.speedRegister

(* C36: platform shutdown is idempotent: whatever the number of shutdown   *)
(* triggers, the body of performCleanup runs at most once, disconnect is  *)
(* requested of each accessory at most once, and every initiateShutdown   *)
(* call after the first returns the cleanup promise of the first call.    *)
C36_ShutdownIdempotent ==
  /\ platform.cleanupRuns <= 1
  /\ platform.disconnectRequests <= 1
  /\ platform.shutdownCalls >= 1
       => platform.cleanupPromise = 1 /\ platform.returned = 1

C36_Witness ==
  /\ platform.shutdownCalls = MaxShutdowns
  /\ platform.cleanupRuns = 1
  /\ platform.disconnectRequests = 1
  /\ platform.returned = 1
  /\ platform.cleanupPc = "done"

(* C37: forceReconnectAll() reconnects every device: once it has           *)
(* completed while the platform is not shutting down, the accessory       *)
(* accepts operations (it is not cleaning up) and is connected or has a   *)
(* connect attempt in progress or scheduled, so that it is connected      *)
(* again eventually.                                                      *)
C37_ReconnectsAfterForce ==
  platform.reconnectPc = "done" /\ ~platform.shutdownInitiated
  => /\ ~inst[1].isCleaningUp
     /\ \/ inst[1].isConnected \/ inst[1].isConnecting
        \/ inst[1].reconnectTimeout \/ inst[1].timerCallback

(* C38: cleanupAllInstances() is a complete safety net: once it has        *)
(* resolved, and no instance was constructed after it was called, every   *)
(* constructed instance has run its cleanup, instanceCount is 0 and       *)
(* activeConnections is empty.                                            *)
C38_SweepComplete ==
  /\ platform.sweepPc = "done"
  /\ {i \in Inst : inst[i].constructed} = platform.sweepSeen
  => /\ \A i \in Inst : inst[i].constructed => inst[i].isCleaningUp
     /\ instanceCount = 0
     /\ \A k \in Endpoints : activeConnections[k] = 0

\* ------------------ the accessory guarded by operationInProgress (part_002)
MaxVariantCalls == 3   \* handler invocations followed per accessory

AlreadyInProgress == "Operation already in progress"

\* the fields of the accessory, and what is in flight for it
VariantFresh ==
  [isConnected |-> FALSE, operationInProgress |-> FALSE,
   \* the inactivity timer of resetDisconnectTimeout is armed
   connectionTimeout |-> FALSE,
   \* what the running operation awaits: "none" (no operation is running),
   \* "connect" (connectTCP) or "request" (its register read or write)
   pending |-> "none",
   \* the handler call that started the running operation
   cur |-> <<>>,
   \* 'Operation timeout' timers of executeWithTimeout that have not fired
   timers |-> 0,
   \* the error thrown by the call just made ("": none)
   thrown |-> "",
   \* the callbacks made so far: the handler, its value, whether another
   \* operation was running when it was invoked, and the error passed
   log |-> <<>>]

\* resetDisconnectTimeout
resetDisconnectTimeout(s) == [s EXCEPT !.connectionTimeout = TRUE]

\* ensureConnection up to its first await
ensureConnection(s) ==
  IF s.operationInProgress THEN [s EXCEPT !.thrown = AlreadyInProgress]
  ELSE IF ~s.isConnected THEN [s EXCEPT !.pending = "connect"]
  ELSE resetDisconnectTimeout(s)

\* the closure "operation" of a handler up to its first await: after
\* ensureConnection it issues its first register request
operation(s) ==
  LET t == ensureConnection(s) IN
    IF t.thrown # "" \/ t.pending = "connect" THEN t
    ELSE [t EXCEPT !.pending = "request"]

\* the handler's .catch: isConnected is dropped and the error is passed on
HandlerCatch(s, call, busy, error) ==
  [s EXCEPT !.isConnected = FALSE, !.thrown = "",
            !.log = Append(@, [kind |-> call[1], value |-> call[2],
                               busy |-> busy, error |-> error])]

\* executeWithTimeout(operation) and the handler's .then/.catch, up to the
\* first await that another task can interleave with
executeWithTimeout(s, call) ==
  LET busy == s.pending # "none" IN
  IF s.operationInProgress THEN HandlerCatch(s, call, busy, AlreadyInProgress)
  ELSE LET t == operation([s EXCEPT !.operationInProgress = TRUE])
           u == [t EXCEPT !.timers = @ + 1]
       IN IF u.thrown # ""
          THEN HandlerCatch([u EXCEPT !.operationInProgress = FALSE],
                            call, busy, u.thrown)
          ELSE [u EXCEPT !.cur = call]

\* HomeKit invokes handleOnGetOn, handleOnSetOn, handleOnGetSpeed or
\* handleOnSetSpeed of accessory i
Variant_handle(i, call) ==
  /\ Len(inst[i].log) < MaxVariantCalls
  /\ inst' = [inst EXCEPT ![i] = executeWithTimeout(@, call)]
  /\ UNCHANGED <<activeConnections, instanceCount, device, platform>>

\* an 'Operation timeout' timer fires: it rejects the race, which matters
\* only while the operation that created it is still awaited
Variant_timeout(i) ==
  /\ inst[i].timers > 0
  /\ inst' = [inst EXCEPT ![i] =
       IF @.pending = "none" THEN [@ EXCEPT !.timers = @ - 1]
       ELSE HandlerCatch([@ EXCEPT !.timers = @ - 1, !.pending = "none",
                             !.operationInProgress = FALSE, !.cur = <<>>],
                         @.cur, FALSE, "Operation timeout")]
  /\ UNCHANGED <<activeConnections, instanceCount, device, platform>>

InitVariant ==
  /\ inst = [i \in Inst |-> VariantFresh]
  /\ activeConnections = [k \in Endpoints |-> 0]
  /\ instanceCount = 0
  /\ platform = NoPlatform(DefaultConfig)
  /\ \E v \in {0, OnSentinel} :
       device = [k \in Endpoints |->
                   [r \in Registers |-> IF r = RegimeRegister THEN v ELSE 0]]

NextVariant ==
  \/ \E call \in Calls : Variant_handle(1, call)
  \/ Variant_timeout(1)

SpecVariant == InitVariant /\ [][NextVariant]_vars

(* C39: in the accessory guarded by operationInProgress, a handler         *)
(* invoked while no other operation of the accessory is running reaches   *)
(* the device; 'Operation already in progress' is passed to a callback    *)
(* only when another operation was running at the invocation.             *)
C39_BusyOnlyWhenRunning ==
  \A i \in Inst : \A n \in 1..Len(inst[i].log) :
    ~inst[i].log[n].busy => inst[i].log[n].error # AlreadyInProgress

\* the callers of connectionMutex.execute
MutexCallers ==
  {<<"init", 0>>, <<"timer", 0>>} \cup {<<"op", o>> : o \in OpIds}

\* caller c is inside the while loop of execute: in waitQueue, or woken and
\* about to test the lock again
InWait(s, c) ==
  \/ c \in s.mutexWoken
  \/ \E n \in 1..Len(s.mutexWait) : s.mutexWait[n] = c

\* the instance of SpecJoin on an event loop that runs every ready task: the
\* continuation of a woken waiter is run
SpecMutex ==
  /\ InitJoin /\ [][NextJoin]_vars
  /\ WF_vars(\E c \in inst[1].mutexWoken : Mutex_wake(1, c))

(* C40: AsyncMutex.execute gives mutual exclusion without lost wake-ups:   *)
(* at most one operation passed to execute of a mutex runs at a time, the *)
(* lock is held only while an operation runs (it is released when the     *)
(* operation throws as well), a free lock with waiters has a woken        *)
(* waiter, and if every holder finishes (the lock is free again and       *)
(* again) every waiting caller leaves the wait and runs its operation.    *)
C40_MutualExclusion ==
  /\ [](\A i \in Inst :
          /\ inst[i].mutexHolders <= 1
          /\ inst[i].mutexLocked <=> inst[i].mutexHolders = 1
          /\ inst[i].mutexLocked => inst[i].connPc # "idle"
          /\ ~inst[i].mutexLocked /\ inst[i].mutexWait # <<>>
               => inst[i].mutexWoken # {})
  /\ []<>(~inst[1].mutexLocked)
       => \A c \in MutexCallers :
            InWait(inst[1], c) ~> ~InWait(inst[1], c)

C40_Witness ==
  /\ inst[1].mutexWoken # {}
  /\ ~inst[1].mutexLocked
  /\ inst[1].mutexHolders = 0
  /\ inst[1].faults > 0
  /\ inst[1].connPc = "idle" /\ ~inst[1].isConnected

====
